---- MODULE Spec2Model ----
(***************************************************************************)
(* Provider adapters (Cloudinary, R2, S3), their batch operations, lazy    *)
(* client initialisation and error mapping, and the uploader facade with   *)
(* its plugin pipeline.                                                    *)
(***************************************************************************)
EXTENDS Integers, Sequences, FiniteSets, TLC

VARIABLES
    provider,       \* name literal of the adapter instance under test
    publicUrl,      \* config.publicUrl is set (R2 only)
    \* ---- deleteMultiple(ids) ----
    ids,            \* the caller's id list
    del_pc,         \* "idle" | "window" | "resolved" | "rejected"
    del_i,          \* loop variable i (0-based start of the current window)
    del_state,      \* per position: "new" | "inflight" | "ok" | "fail"
    del_calls,      \* per position: number of this.delete(id) invocations
    failed,         \* the ids pushed to `failed`, in push order
    del_error,      \* the error deleteMultiple rejects with (NoError otherwise)
    \* ---- uploadMultiple(files, options) ----
    files,          \* the caller's file list
    optConcurrency, \* options?.concurrency as passed: <<>> (omitted) or <<C>>
    concurrency,    \* const concurrency = options?.concurrency ?? 5
    up_pc,          \* "idle" | "window" | "resolved" | "rejected"
    up_i,           \* loop variable i (0-based start of the current window)
    up_state,       \* per position: "new" | "inflight" | "ok" | "fail"
    up_calls,       \* per position: number of this.upload(file, ...) invocations
    up_order,       \* positions of the current window in the order they fulfilled
    results,        \* the `results` array
    up_error,       \* the error uploadMultiple rejects with (NoError otherwise)
    \* ---- one adapter instance and the operations called on it ----
    clientPromise,  \* this.clientPromise: "none" | "pending" | "resolved" | "rejected"
    client,         \* this.client: 0 (null) or the serial number of the client held
    initStarts,     \* calls of initializeClient so far
    initDone,       \* calls of initializeClient that have finished
    clientsCreated, \* backend clients constructed so far
    cachedUpload,   \* module-level cachedUpload is set (R2, S3)
    op_pc,          \* per call: "idle" | "awaitClient" | "awaitUploadClass" | "backend" | "done"
    op_kind,        \* per call: "upload" | "delete" | "get"
    op_early,       \* per call: it was started before the client existed
    op_resp,        \* per call: the backend's answer to its request
    op_out,         \* per call: how the returned promise settled
    \* ---- the uploader facade and its plugin pipeline ----
    plugins,        \* the registered plugins, in registration order
    pipe_pc,        \* "idle" | "before" | "adapter" | "after" | "onError" | "resolved" | "rejected"
    pipe_i,         \* the last plugin whose hook of the current phase was run (0: none)
    pipe_args,      \* the current (file, options): the plugins that transformed it, in order
    pipe_result,    \* the current upload result: the plugins that modified it, in order
    log,            \* the hook runs and the adapter call of this upload, as they started
    adapterCalls,   \* invocations of the adapter's upload
    pipe_error,     \* the error that aborted the pipeline
    pipe_out,       \* how Uploader.upload settled
    \* ---- construction and serialisation of an adapter ----
    config,         \* the config object passed to the constructor
    ctor_out,       \* "none" | "constructed" | "threw"
    ctor_error,     \* the error the constructor threw (NoError otherwise)
    instance,       \* the own properties of the constructed instance, in creation order
    view,           \* what the last JSON.stringify / Object.entries of the instance produced
    \* ---- keys of successive uploads with one set of options ----
    keyOpts,        \* the caller's options: filename, folder, uniqueFilename
    hasCrypto,      \* globalThis.crypto.getRandomValues exists
    draws,          \* what the random sources and the clock gave each upload
    keys,           \* the key / id each upload targeted, in call order
    stored,         \* the keys of the objects in the bucket
    overwritten,    \* an upload replaced an object stored by an earlier one
    \* ---- calls on a MediaUploader wrapping one provider ----
    hasSearch,      \* the wrapped provider has a search method
    api_kind,       \* the last call: "none" | "supports" | "search"
    api_arg,        \* its argument: the feature string (supports), <<>> otherwise
    api_out,        \* what it returned / how its promise settled
    providerLog,    \* the calls made on the wrapped provider, each with its answer
    \* ---- one application of an adapter's error mapping ----
    map_err,        \* the upstream error caught at the operation boundary
    map_op,         \* the operation that caught it: "upload" | "delete" | "get"
    map_out,        \* the MediaError the mapping produced (NoError before)
    \* ---- one upload with options.onProgress supplied ----
    prog_pc,        \* "idle" | "prepared" | "uploading" | "resolved" | "rejected"
    prog_file,      \* the file argument: "Buffer" | "File"
    prog_total,     \* the body's size in parts (0: an empty body)
    prog_loaded,    \* parts the SDK has reported as sent
    progress,       \* the values onProgress was called with, in call order
    \* ---- the options objects of one uploadMultiple(files, options) ----
    callerOptions,  \* the caller's options as passed: Undefined or object 0 with its keys
    heap,           \* the keys of every object by identity (object 0: the caller's)
    uploadArgs      \* per upload call, the identity of its options argument (-1: undefined)

delVars == <<ids, del_pc, del_i, del_state, del_calls, failed, del_error>>
upVars == <<files, optConcurrency, concurrency, up_pc, up_i, up_state, up_calls, up_order, results, up_error>>
cfgVars == <<provider, publicUrl>>
opVars == <<clientPromise, client, initStarts, initDone, clientsCreated, cachedUpload,
            op_pc, op_kind, op_early, op_resp, op_out>>
pipeVars == <<plugins, pipe_pc, pipe_i, pipe_args, pipe_result, log, adapterCalls, pipe_error, pipe_out>>
ctorVars == <<config, ctor_out, ctor_error, instance, view>>
keyVars == <<keyOpts, hasCrypto, draws, keys, stored, overwritten>>
apiVars == <<hasSearch, api_kind, api_arg, api_out, providerLog>>
mapVars == <<map_err, map_op, map_out>>
progVars == <<prog_pc, prog_file, prog_total, prog_loaded, progress>>
optVars == <<callerOptions, heap, uploadArgs>>
\* ---- state of the later sections
\* one call of createMediaError(code, provider, error, additionalDetails)
VARIABLES
    cme_code,
    cme_error,
    cme_details,
    cme_out
\* cme_code: the code argument
\* cme_error: the error argument: any JavaScript value
\* cme_details: the additionalDetails argument ("undefined" when omitted)
\* cme_out: what the call produced: <<>> before the call, else <<outcome>>
cmeVars == <<cme_code, cme_error, cme_details, cme_out>>

\* one call of R2Provider.getUrl(id, transform)
VARIABLES
    url_config,
    url_id,
    url_transform,
    url_warnings,
    url_out
\* url_config: this.config.publicUrl: "undefined", "" or a base URL
\* url_id: the id argument
\* url_transform: the transform argument: <<>> when omitted, else <<its keys>>
\* url_warnings: console.warn calls made by getUrl
\* url_out: <<>> before the call, else <<what getUrl returned or threw>>
urlVars == <<url_config, url_id, url_transform, url_warnings, url_out>>

\* one run of the file-validation plugin's beforeUpload(file, uploadOptions)
VARIABLES
    val_opts,
    val_file,
    val_meta,
    val_calls,
    val_evaluated,
    val_out
\* val_opts: the FileValidationOptions the plugin was created with
\* val_file: what getFileInfo found: size, type, ext
\* val_meta: the keys of uploadOptions.metadata as passed by the caller
\* val_calls: invocations of options.onValidationFailed
\* val_evaluated: the checks whose condition was evaluated, in order
\* val_out: <<>> before the run, else <<how the hook settled>>
valVars == <<val_opts, val_file, val_meta, val_calls, val_evaluated, val_out>>

\* CloudinaryProvider.uploadMultiple with a caller-supplied onProgress
VARIABLES
    bl_n,
    bl_conc,
    bl_buffer,
    bl_pc,
    bl_i,
    bl_pos,
    bl_seq
\* bl_n: files.length
\* bl_conc: options.concurrency
\* bl_buffer: TRUE: the files are Buffers, FALSE: File objects
\* bl_pc: idle, window, resolved or rejected
\* bl_i: the loop index i
\* bl_pos: where each upload(file, fileOptions) stands
\* bl_seq: the values passed to the caller's onProgress, in call order
blendVars == <<bl_n, bl_conc, bl_buffer, bl_pc, bl_i, bl_pos, bl_seq>>

\* one R2Provider.upload and the bucket it writes to
VARIABLES
    st_pc,
    st_key,
    st_multipart,
    st_bucket,
    st_parts,
    st_stored,
    st_out
\* st_pc: idle, uploading or settled
\* st_key: the key generateKey chose
\* st_multipart: TRUE: the file is sent as a multi-part transfer
\* st_bucket: the keys of the objects stored in the bucket
\* st_parts: the parts of the transfer held by the backend
\* st_stored: TRUE: this call stored the object
\* st_out: how the call settled
storeVars == <<st_pc, st_key, st_multipart, st_bucket, st_parts, st_stored, st_out>>

\* several CloudinaryProvider instances in one process
VARIABLES
    cachedCloudinary,
    sdkConfig,
    sh_promise,
    sh_pc,
    sh_done,
    sh_executed
\* cachedCloudinary: TRUE once the module-level SDK import is cached
\* sdkConfig: the instance whose config the shared SDK object holds (0: none)
\* sh_promise: each instance's clientPromise: none, pending or resolved
\* sh_pc: where each instance's current operation stands
\* sh_done: operations each instance has completed
\* sh_executed: pairs <<instance, config in force>> of the backend calls made
sharedVars == <<cachedCloudinary, sdkConfig, sh_promise, sh_pc, sh_done, sh_executed>>

\* the analytics plugin's state over several Uploader.upload calls
VARIABLES
    trackPerformance,
    uploadStartTimes,
    an_now,
    an_pc,
    an_id,
    an_clean
\* trackPerformance: config.trackPerformance
\* uploadStartTimes: the keys of the Map uploadStartTimes
\* an_now: Date.now()
\* an_pc: where each upload stands: idle or inflight
\* an_id: the uploadId beforeUpload gave each upload
\* an_clean: TRUE while no upload has failed and no uploadId was given twice
anVars == <<trackPerformance, uploadStartTimes, an_now, an_pc, an_id, an_clean>>

restVars == <<cmeVars, urlVars, valVars, blendVars, storeVars, sharedVars, anVars>>

othersOfCme ==
  <<cfgVars, delVars, upVars, opVars, pipeVars, ctorVars, keyVars, apiVars, mapVars, progVars,
    optVars, urlVars, valVars, blendVars, storeVars, sharedVars, anVars>>

othersOfUrl ==
  <<cfgVars, delVars, upVars, opVars, pipeVars, ctorVars, keyVars, apiVars, mapVars, progVars,
    optVars, cmeVars, valVars, blendVars, storeVars, sharedVars, anVars>>

othersOfVal ==
  <<cfgVars, delVars, upVars, opVars, pipeVars, ctorVars, keyVars, apiVars, mapVars, progVars,
    optVars, cmeVars, urlVars, blendVars, storeVars, sharedVars, anVars>>

othersOfBlend ==
  <<cfgVars, delVars, upVars, opVars, pipeVars, ctorVars, keyVars, apiVars, mapVars, progVars,
    optVars, cmeVars, urlVars, valVars, storeVars, sharedVars, anVars>>

othersOfStore ==
  <<cfgVars, delVars, upVars, opVars, pipeVars, ctorVars, keyVars, apiVars, mapVars, progVars,
    optVars, cmeVars, urlVars, valVars, blendVars, sharedVars, anVars>>

othersOfShared ==
  <<cfgVars, delVars, upVars, opVars, pipeVars, ctorVars, keyVars, apiVars, mapVars, progVars,
    optVars, cmeVars, urlVars, valVars, blendVars, storeVars, anVars>>

othersOfAn ==
  <<cfgVars, delVars, upVars, opVars, pipeVars, ctorVars, keyVars, apiVars, mapVars, progVars,
    optVars, cmeVars, urlVars, valVars, blendVars, storeVars, sharedVars>>

\* ---- end: state of the later sections

moreVars == <<apiVars, mapVars, progVars, optVars, restVars>>
auxVars == <<ctorVars, keyVars, moreVars>>
vars == <<cfgVars, delVars, upVars, opVars, pipeVars, auxVars>>

\* ------------------------------------------------------------------ bounds
MaxIds == 11
MaxDupIds == 3
MaxFiles == 6
MaxConcurrency == 3
MaxNegConcurrency == 1
MaxSpin == 2
NumOps == 2
MaxPlugins == 3
MaxUploads == 2
MaxFeatureLen == 5
MaxMarkers == 2
MaxParts == 4
MaxBatch == 3
MaxFileSize == 3
MaxBlendFiles == 3
MaxStoreKeys == 3
MaxStoreParts == 3
NumInstances == 2
MaxInstanceOps == 2
MaxClock == 2

\* ------------------------------------------------------- error taxonomy
Providers == {"cloudinary", "r2", "s3"}

MediaErrorCode ==
    {"UPLOAD_FAILED", "FILE_TOO_LARGE", "INVALID_FILE_TYPE", "NETWORK_ERROR",
     "INVALID_CREDENTIALS", "UNAUTHORIZED", "PROVIDER_ERROR", "RATE_LIMITED",
     "QUOTA_EXCEEDED", "INVALID_CONFIG", "MISSING_CREDENTIALS",
     "FILE_NOT_FOUND", "DELETE_FAILED"}

\* MediaError.details: absent (undefined), or the map the caller passed.
NoDetails == [present |-> FALSE, httpCode |-> 0, count |-> 0, total |-> 0, list |-> <<>>]
HttpDetails(h) == [present |-> TRUE, httpCode |-> h, count |-> 0, total |-> 0, list |-> <<>>]

\* An upstream (SDK) error value: its name, HTTP status (0: none) and the
\* marker substrings its message contains.
UpErr(n, h, m) == [name |-> n, http |-> h, msg |-> m]

\* A message: a fixed text and, for the aggregate error of deleteMultiple, the
\* numbers and ids its template interpolates.
Msg(text) == [text |-> text, count |-> 0, total |-> 0, list |-> <<>>]

\* new MediaError(message, code, provider, originalError, details)
MediaError(message, code, prov, details) ==
    [type |-> "MediaError", code |-> code, provider |-> prov,
     message |-> message, details |-> details]

\* createMediaError(code, provider, error, additionalDetails): the message is
\* error.message (here: the message the caller built).
createMediaError(code, prov, message, details) ==
    MediaError(message, code, prov, details)

\* A raw (non-MediaError) exception reaching the caller.
RawError(text) ==
    [type |-> "Error", code |-> "none", provider |-> "none",
     message |-> Msg(text), details |-> NoDetails]

NoError ==
    [type |-> "none", code |-> "none", provider |-> "none",
     message |-> Msg(""), details |-> NoDetails]

\* The mapping with the quota test ahead of the authentication test.
mapCloudinaryErrorQuotaFirst(err, operation) ==
    IF err.http = 402 \/ "quota" \in err.msg
    THEN createMediaError("QUOTA_EXCEEDED", "cloudinary",
                          Msg("Cloudinary account quota exceeded"), HttpDetails(err.http))
    ELSE IF err.http = 401 \/ "Invalid API key" \in err.msg
    THEN createMediaError("INVALID_CREDENTIALS", "cloudinary",
                          Msg("Invalid Cloudinary credentials"), HttpDetails(err.http))
    ELSE IF err.http = 404 \/ "not found" \in err.msg
    THEN createMediaError("FILE_NOT_FOUND", "cloudinary",
                          Msg("File not found"), HttpDetails(err.http))
    ELSE IF err.http = 408 \/ "timeout" \in err.msg \/ "ETIMEDOUT" \in err.msg
    THEN createMediaError("NETWORK_ERROR", "cloudinary",
                          Msg("Request timeout"), HttpDetails(err.http))
    ELSE IF "Invalid image file" \in err.msg \/ "File size too large" \in err.msg
    THEN createMediaError("FILE_TOO_LARGE", "cloudinary",
                          Msg("Invalid file"), HttpDetails(err.http))
    ELSE createMediaError(
             IF operation = "upload" THEN "UPLOAD_FAILED"
             ELSE IF operation = "delete" THEN "DELETE_FAILED"
             ELSE "FILE_NOT_FOUND",
             "cloudinary", Msg("upstream"), HttpDetails(err.http))

\* CloudinaryProvider.mapCloudinaryError(error, operation)
mapCloudinaryError(err, operation) ==
    IF err.http = 401 \/ "Invalid API key" \in err.msg
    THEN createMediaError("INVALID_CREDENTIALS", "cloudinary",
                          Msg("Invalid Cloudinary credentials"), HttpDetails(err.http))
    ELSE IF err.http = 402 \/ "quota" \in err.msg
    THEN createMediaError("QUOTA_EXCEEDED", "cloudinary",
                          Msg("Cloudinary account quota exceeded"), HttpDetails(err.http))
    ELSE IF err.http = 404 \/ "not found" \in err.msg
    THEN createMediaError("FILE_NOT_FOUND", "cloudinary",
                          Msg("File not found"), HttpDetails(err.http))
    ELSE IF err.http = 408 \/ "timeout" \in err.msg \/ "ETIMEDOUT" \in err.msg
    THEN createMediaError("NETWORK_ERROR", "cloudinary",
                          Msg("Request timeout"), HttpDetails(err.http))
    ELSE IF "Invalid image file" \in err.msg \/ "File size too large" \in err.msg
    THEN createMediaError("FILE_TOO_LARGE", "cloudinary",
                          Msg("Invalid file"), HttpDetails(err.http))
    ELSE createMediaError(
             IF operation = "upload" THEN "UPLOAD_FAILED"
             ELSE IF operation = "delete" THEN "DELETE_FAILED"
             ELSE "FILE_NOT_FOUND",
             "cloudinary", Msg("upstream"), HttpDetails(err.http))

\* R2Provider.mapS3Error(error, defaultCode)
mapR2Error(err, defaultCode) ==
    IF err.name = "NoSuchBucket"
    THEN createMediaError("INVALID_CONFIG", "r2", Msg("Bucket does not exist"), NoDetails)
    ELSE IF err.name \in {"AccessDenied", "InvalidAccessKeyId"} \/ err.http = 403
    THEN createMediaError("UNAUTHORIZED", "r2", Msg("Access denied"), NoDetails)
    ELSE IF err.name = "SignatureDoesNotMatch" \/ err.http = 401
    THEN createMediaError("INVALID_CREDENTIALS", "r2", Msg("Invalid R2 credentials"), NoDetails)
    ELSE IF err.name = "NoSuchKey" \/ err.http = 404
    THEN createMediaError("FILE_NOT_FOUND", "r2", Msg("upstream"), NoDetails)
    ELSE IF err.name \in {"SlowDown", "ServiceUnavailable"} \/ err.http = 503
    THEN createMediaError("NETWORK_ERROR", "r2", Msg("R2 service temporarily unavailable"), NoDetails)
    ELSE IF err.name = "TimeoutError" \/ "ETIMEDOUT" \in err.msg \/ "ECONNRESET" \in err.msg
    THEN createMediaError("NETWORK_ERROR", "r2", Msg("Network timeout"), NoDetails)
    ELSE IF err.name = "EntityTooLarge" \/ err.http = 413
    THEN createMediaError("FILE_TOO_LARGE", "r2", Msg("File exceeds maximum allowed size"), NoDetails)
    ELSE createMediaError(defaultCode, "r2", Msg("upstream"), NoDetails)

\* S3Provider.mapS3Error(error, defaultCode)
mapS3Error(err, defaultCode) ==
    IF err.name = "NoSuchBucket"
    THEN createMediaError("INVALID_CONFIG", "s3", Msg("Bucket does not exist"), NoDetails)
    ELSE IF err.name \in {"AccessDenied", "InvalidAccessKeyId"}
    THEN createMediaError("UNAUTHORIZED", "s3", Msg("Access denied"), NoDetails)
    ELSE IF err.name = "NoSuchKey"
    THEN createMediaError("FILE_NOT_FOUND", "s3", Msg("upstream"), NoDetails)
    ELSE createMediaError(defaultCode, "s3", Msg("upstream"), NoDetails)

\* The adapter's error mapping, by adapter.
mapError(prov, err, operation) ==
    IF prov = "cloudinary" THEN mapCloudinaryError(err, operation)
    ELSE LET defaultCode == IF operation = "upload" THEN "UPLOAD_FAILED"
                            ELSE IF operation = "delete" THEN "DELETE_FAILED"
                            ELSE "FILE_NOT_FOUND"
         IN IF prov = "r2" THEN mapR2Error(err, defaultCode)
            ELSE mapS3Error(err, defaultCode)

\* ------------------------------------------------ backend (SDK) responses
\* What the backend call of delete(id) can answer: a returned value
\* (Cloudinary's destroy result string; the S3 API returns nothing of note) or
\* a thrown upstream error.
Returned(result) == [tag |-> "value", result |-> result, err |-> UpErr("", 0, {})]
Thrown(err) == [tag |-> "throw", result |-> "", err |-> err]

SampleErrors ==
    { UpErr("Error", 0, {}),
      UpErr("Error", 404, {}),
      UpErr("Error", 0, {"not found"}),
      UpErr("NoSuchKey", 404, {}),
      UpErr("AccessDenied", 403, {}),
      UpErr("Error", 401, {"quota"}),
      UpErr("TimeoutError", 0, {"ETIMEDOUT"}) }

DeleteResponses(prov) ==
    (IF prov = "cloudinary"
     THEN {Returned("ok"), Returned("not found"), Returned("error")}
     ELSE {Returned("")})
    \cup {Thrown(e) : e \in SampleErrors}

Resolved == [status |-> "resolved", error |-> NoError]
Rejected(e) == [status |-> "rejected", error |-> e]

\* The try/catch body of delete(id), given the backend's answer:
\* CloudinaryProvider.delete checks result.result; R2/S3 only await send().
deleteBody(prov, resp) ==
    IF resp.tag = "throw"
    THEN Rejected(mapError(prov, resp.err, "delete"))
    ELSE IF prov = "cloudinary" /\ resp.result \notin {"ok", "not found"}
    THEN Rejected(mapCloudinaryError(UpErr("Error", 0, {}), "delete"))
    ELSE Resolved

\* The backend answers the batch operations are exercised with.
BatchDeleteResponses(prov) ==
    (IF prov = "cloudinary" THEN {Returned("ok"), Returned("error")}
     ELSE {Returned("")})
    \cup {Thrown(UpErr("AccessDenied", 403, {}))}

\* ------------------------------------------------------- deleteMultiple
\* const concurrency = 10
DelConcurrency == 10

\* ids.slice(i, i + concurrency): the (1-based) positions of the window that
\* starts at loop index i, for a list of n entries.
\* Array.prototype.slice clamps an index to 0..n and counts a negative one
\* from the end.
SliceIndex(x, n) ==
    IF x < 0 THEN (IF n + x < 0 THEN 0 ELSE n + x)
    ELSE IF x > n THEN n ELSE x
BatchOf(i, n, c) == {k \in 1..n : SliceIndex(i, n) < k /\ k <= SliceIndex(i + c, n)}

\* Promise.allSettled(batch.map(...)) has resolved: every delete of the window
\* has settled, fulfilled or rejected.
AllSettled(st, batch) == \A k \in batch : st[k] \in {"ok", "fail"}

\* results.forEach: the ids of the window's rejected deletes, in batch order.
RECURSIVE RejectedIds(_, _, _, _)
RejectedIds(idList, st, k, last) ==
    IF k > last THEN <<>>
    ELSE (IF st[k] = "fail" THEN <<idList[k]>> ELSE <<>>)
         \o RejectedIds(idList, st, k + 1, last)

\* `Failed to delete ${failed.length} of ${ids.length} files: ${failed ids}`
AggregateMessage(failedIds, n) ==
    [text |-> "Failed to delete", count |-> Len(failedIds), total |-> n,
     list |-> failedIds]

\* The throw at the end of deleteMultiple: createMediaError with three
\* arguments (no additionalDetails).
AggregateError(prov, failedIds, n) ==
    createMediaError("DELETE_FAILED", prov, AggregateMessage(failedIds, n), NoDetails)

\* The id lists deleteMultiple is called with: n distinct ids and, for short
\* lists, a list that repeats ids.
IdLists(n) ==
    { [k \in 1..n |-> k] }
    \cup (IF n <= MaxDupIds THEN { [k \in 1..n |-> ((k - 1) % 2) + 1] } ELSE {})

\* Entering the for loop body at index i: batch.map starts this.delete(id)
\* for every id of the window at once.
StartDeleteWindow(st, calls, i, n) ==
    [st2 |-> [k \in 1..n |-> IF k \in BatchOf(i, n, DelConcurrency) THEN "inflight" ELSE st[k]],
     calls2 |-> [k \in 1..n |-> IF k \in BatchOf(i, n, DelConcurrency) THEN calls[k] + 1 ELSE calls[k]]]

\* deleteMultiple(ids) is called: the loop starts its first window
\* synchronously; an empty list falls through to the end.
deleteMultiple ==
    /\ del_pc = "idle"
    /\ up_pc = "idle"
    /\ \E n \in 0..MaxIds : \E idList \in IdLists(n) :
         LET w == StartDeleteWindow([k \in 1..n |-> "new"], [k \in 1..n |-> 0], 0, n)
         IN /\ ids' = idList
            /\ del_i' = 0
            /\ del_state' = w.st2
            /\ del_calls' = w.calls2
            /\ failed' = <<>>
            /\ del_error' = NoError
            /\ del_pc' = IF n = 0 THEN "resolved" ELSE "window"
    /\ UNCHANGED <<cfgVars, auxVars, pipeVars, opVars, upVars>>

\* (Promise.all in place of Promise.allSettled: the first rejection rejects
\* the batch call at once.)
DeleteSettlesFailFast(k) ==
    /\ del_pc = "window"
    /\ del_state[k] = "inflight"
    /\ \E resp \in BatchDeleteResponses(provider) :
         IF deleteBody(provider, resp).status = "resolved"
         THEN /\ del_state' = [del_state EXCEPT ![k] = "ok"]
              /\ UNCHANGED <<del_pc, del_error, failed>>
         ELSE /\ del_state' = [del_state EXCEPT ![k] = "fail"]
              /\ del_pc' = "rejected"
              /\ failed' = <<ids[k]>>
              /\ del_error' = deleteBody(provider, resp).error
    /\ UNCHANGED <<cfgVars, auxVars, pipeVars, opVars, upVars, ids, del_i, del_calls>>

\* One this.delete(id) of the current window settles.
DeleteSettles(k) ==
    /\ del_pc = "window"
    /\ del_state[k] = "inflight"
    /\ \E resp \in BatchDeleteResponses(provider) :
         del_state' = [del_state EXCEPT ![k] =
             IF deleteBody(provider, resp).status = "resolved" THEN "ok" ELSE "fail"]
    /\ UNCHANGED <<cfgVars, auxVars, pipeVars, opVars, upVars, ids, del_pc, del_i, del_calls, failed, del_error>>

\* The await of Promise.allSettled resumes: failed ids are pushed, then the
\* loop starts the next window or, past the end, resolves or throws.
DeleteWindowJoin ==
    /\ del_pc = "window"
    /\ AllSettled(del_state, BatchOf(del_i, Len(ids), DelConcurrency))
    /\ LET n == Len(ids)
           last == IF del_i + DelConcurrency <= n THEN del_i + DelConcurrency ELSE n
           failed2 == failed \o RejectedIds(ids, del_state, del_i + 1, last)
           i2 == del_i + DelConcurrency
           w == StartDeleteWindow(del_state, del_calls, i2, n)
       IN /\ failed' = failed2
          /\ del_i' = i2
          /\ IF i2 < n
             THEN /\ del_state' = w.st2
                  /\ del_calls' = w.calls2
                  /\ UNCHANGED <<del_pc, del_error>>
             ELSE /\ UNCHANGED <<del_state, del_calls>>
                  /\ IF Len(failed2) > 0
                     THEN /\ del_pc' = "rejected"
                          /\ del_error' = AggregateError(provider, failed2, n)
                     ELSE /\ del_pc' = "resolved"
                          /\ UNCHANGED del_error
    /\ UNCHANGED <<cfgVars, auxVars, pipeVars, opVars, upVars, ids>>

\* ------------------------------------------------------- uploadMultiple
\* options?.concurrency ?? 5
DefaultConcurrency == 5

BatchUploadResponses ==
    {Returned("ok"), Thrown(UpErr("Error", 0, {})), Thrown(UpErr("AccessDenied", 403, {}))}

\* The UploadResult of uploading `file` (normalizeResult / createResult).
UploadResultOf(prov, file) == [of |-> file, provider |-> prov]

\* The try/catch body of upload(file, options), given the backend's answer.
\* R2's createResult calls getUrl, which throws INVALID_CONFIG without
\* publicUrl; the catch maps that MediaError to the default UPLOAD_FAILED.
uploadBody(prov, hasPublicUrl, resp) ==
    IF resp.tag = "throw"
    THEN Rejected(mapError(prov, resp.err, "upload"))
    ELSE IF prov = "r2" /\ ~hasPublicUrl
    THEN Rejected(mapR2Error(UpErr("MediaError", 0, {}), "UPLOAD_FAILED"))
    ELSE Resolved

\* The error a failed initializeClient rejects the stored promise with: the
\* import's or the constructor's own error, which no adapter code wraps.
InitFailure(cp) ==
    IF cp = "importFailed" THEN RawError("Cannot find module") ELSE RawError("client constructor threw")

\* How one this.upload(file, options) of a batch can settle. Every upload of
\* the instance awaits the same memoized client promise before its try block:
\* if the SDK cannot be loaded each of them rejects with the import's own
\* error, and if one upload got past it none is rejected that way.
BatchUploadOutcomes(prov, hasPublicUrl, st, pc, err) ==
    (IF pc = "rejected" /\ err.type = "Error" THEN {}
     ELSE {uploadBody(prov, hasPublicUrl, resp) : resp \in BatchUploadResponses})
    \cup
    (IF (\A k \in DOMAIN st : st[k] # "ok") /\ (pc = "window" \/ err.type = "Error")
        /\ (\A k \in DOMAIN st : st[k] = "fail" => err.type = "Error")
     THEN {Rejected(InitFailure("importFailed"))}
     ELSE {})

\* Promise.all's fulfilment value: the results by position in the batch,
\* whatever the order in which the uploads fulfilled.
RECURSIVE ResultsInOrder(_, _, _)
ResultsInOrder(prov, fileList, positions) ==
    IF positions = <<>> THEN <<>>
    ELSE <<UploadResultOf(prov, fileList[Head(positions)])>>
         \o ResultsInOrder(prov, fileList, Tail(positions))

RECURSIVE Range(_, _)
Range(a, b) == IF a > b THEN <<>> ELSE <<a>> \o Range(a + 1, b)

PromiseAllByCompletion(prov, fileList, first, last, order) ==
    ResultsInOrder(prov, fileList, order)
PromiseAll(prov, fileList, first, last, order) ==
    ResultsInOrder(prov, fileList, Range(first, last))

\* Promise.all has fulfilled: every upload of the window has fulfilled.
AllFulfilledNoWait(st, batch) == TRUE
AllFulfilled(st, batch) == \A k \in batch : st[k] = "ok"

StartUploadWindow(st, calls, i, n, c) ==
    [st2 |-> [k \in 1..n |-> IF k \in BatchOf(i, n, c) THEN "inflight" ELSE st[k]],
     calls2 |-> [k \in 1..n |-> IF k \in BatchOf(i, n, c) THEN calls[k] + 1 ELSE calls[k]]]

\* The values of options.concurrency a caller may pass: none, or any number;
\* the adapters validate none of them.
ConcurrencyOptions == {<<>>} \cup {<<c>> : c \in (0 - MaxNegConcurrency)..MaxConcurrency}

\* uploadMultiple(files, options) is called.
uploadMultiple ==
    /\ up_pc = "idle"
    /\ del_pc = "idle"
    /\ \E n \in 0..MaxFiles : \E c \in ConcurrencyOptions :
         LET conc == IF c = <<>> THEN DefaultConcurrency ELSE c[1]
             w == StartUploadWindow([k \in 1..n |-> "new"], [k \in 1..n |-> 0], 0, n, conc)
         IN /\ files' = [k \in 1..n |-> k]
            /\ optConcurrency' = c
            /\ concurrency' = conc
            /\ up_i' = 0
            /\ up_state' = w.st2
            /\ up_calls' = w.calls2
            /\ up_order' = <<>>
            /\ results' = <<>>
            /\ up_error' = NoError
            /\ up_pc' = IF n = 0 THEN "resolved" ELSE "window"
    /\ UNCHANGED <<cfgVars, auxVars, pipeVars, opVars, delVars>>

\* One this.upload(file, fileOptions) settles. A rejection rejects
\* Promise.all at once, and with it uploadMultiple; the uploads still in
\* flight keep running and settle later.
UploadSettles(k) ==
    /\ up_pc \in {"window", "rejected"}
    /\ up_state[k] = "inflight"
    /\ \E out \in BatchUploadOutcomes(provider, publicUrl, up_state, up_pc, up_error) :
            IF out.status = "resolved"
            THEN /\ up_state' = [up_state EXCEPT ![k] = "ok"]
                 /\ up_order' = IF up_pc = "window" THEN Append(up_order, k) ELSE up_order
                 /\ UNCHANGED <<up_pc, up_error>>
            ELSE /\ up_state' = [up_state EXCEPT ![k] = "fail"]
                 /\ up_pc' = "rejected"
                 /\ up_error' = IF up_pc = "window" THEN out.error ELSE up_error
                 /\ up_order' = <<>>
    /\ UNCHANGED <<cfgVars, auxVars, pipeVars, opVars, delVars, files, optConcurrency, concurrency, up_i, up_calls, results>>

\* The await of Promise.all resumes: results.push(...batchResults), then the
\* loop (i += concurrency) starts the next window or, past the end, returns
\* results. With a negative concurrency i decreases without end; the model
\* follows it down to -MaxSpin.
UploadWindowJoin ==
    /\ up_pc = "window"
    /\ AllFulfilled(up_state, BatchOf(up_i, Len(files), concurrency))
    /\ up_i + concurrency >= 0 - MaxSpin
    /\ LET n == Len(files)
           first == SliceIndex(up_i, n) + 1
           last == SliceIndex(up_i + concurrency, n)
           i2 == up_i + concurrency
           w == StartUploadWindow(up_state, up_calls, i2, n, concurrency)
       IN /\ results' = results \o PromiseAll(provider, files, first, last, up_order)
          /\ up_i' = i2
          /\ IF i2 < n
             THEN /\ up_state' = w.st2
                  /\ up_calls' = w.calls2
                  /\ up_order' = <<>>
                  /\ UNCHANGED up_pc
             ELSE /\ UNCHANGED <<up_state, up_calls, up_order>>
                  /\ up_pc' = "resolved"
    /\ UNCHANGED <<cfgVars, auxVars, pipeVars, opVars, delVars, files, optConcurrency, concurrency, up_error>>

InitCfg ==
    /\ provider \in Providers
    /\ publicUrl \in (IF provider = "r2" THEN BOOLEAN ELSE {FALSE})

InitDel ==
    /\ ids = <<>>
    /\ del_pc = "idle"
    /\ del_i = 0
    /\ del_state = <<>>
    /\ del_calls = <<>>
    /\ failed = <<>>
    /\ del_error = NoError

InitUp ==
    /\ files = <<>>
    /\ optConcurrency = <<>>
    /\ concurrency = DefaultConcurrency
    /\ up_pc = "idle"
    /\ up_i = 0
    /\ up_state = <<>>
    /\ up_calls = <<>>
    /\ up_order = <<>>
    /\ results = <<>>
    /\ up_error = NoError

Pending == [status |-> "pending", error |-> NoError]
NoResponse == [tag |-> "none", result |-> "", err |-> UpErr("", 0, {})]

\* A freshly constructed adapter: the constructor stores the config and
\* creates no client (client = null, clientPromise = null).
InitOps ==
    /\ clientPromise = "none"
    /\ client = 0
    /\ initStarts = 0
    /\ initDone = 0
    /\ clientsCreated = 0
    /\ cachedUpload = FALSE
    /\ op_pc = [p \in 1..NumOps |-> "idle"]
    /\ op_kind = [p \in 1..NumOps |-> "none"]
    /\ op_early = [p \in 1..NumOps |-> FALSE]
    /\ op_resp = [p \in 1..NumOps |-> NoResponse]
    /\ op_out = [p \in 1..NumOps |-> Pending]

\* ------------------------------------------------ adapter construction
\* A config object: every field any adapter reads, Absent when the caller's
\* object does not have it.
Absent == "<undefined>"
ConfigFields ==
    {"cloudName", "apiKey", "apiSecret", "region", "bucket", "accessKeyId",
     "secretAccessKey", "accountId", "endpoint"}
CredentialFields == {"apiKey", "apiSecret", "accessKeyId", "secretAccessKey"}
NoConfig == [f \in ConfigFields |-> Absent]

\* JavaScript's !value for an optional string field: undefined and '' are falsy.
FalsyOnlyUndefined(v) == v = Absent
Falsy(v) == v \in {Absent, ""}

\* value.trim().length === 0, and value.includes('/').
Blank(v) == v \in {"", " "}
IncludesSlash(v) == v \in {"a/b", "/"}

\* const required = [...] of each constructor, in its order.
Required(prov) ==
    IF prov = "cloudinary" THEN <<"cloudName", "apiKey", "apiSecret">>
    ELSE IF prov = "r2" THEN <<"bucket", "accessKeyId", "secretAccessKey">>
    ELSE <<"region", "bucket", "accessKeyId", "secretAccessKey">>

\* required.filter((field) => !config[field])
RECURSIVE MissingFrom(_, _)
MissingFrom(fields, cfg) ==
    IF fields = <<>> THEN <<>>
    ELSE (IF Falsy(cfg[Head(fields)]) THEN <<Head(fields)>> ELSE <<>>)
         \o MissingFrom(Tail(fields), cfg)
Missing(prov, cfg) == MissingFrom(Required(prov), cfg)

InvalidConfig(prov, text, fields) ==
    createMediaError("INVALID_CONFIG", prov,
                     [text |-> text, count |-> 0, total |-> 0, list |-> fields], NoDetails)

\* The validation of each constructor, in the order of its statements:
\* NoError when the constructor goes on to store the config.
Validate(prov, cfg) ==
    IF prov = "cloudinary"
    THEN IF Missing(prov, cfg) # <<>>
         THEN InvalidConfig(prov, "Missing required Cloudinary configuration", Missing(prov, cfg))
         ELSE IF Blank(cfg["cloudName"])
         THEN InvalidConfig(prov, "cloudName must be a non-empty string", <<>>)
         ELSE NoError
    ELSE IF prov = "r2" /\ Falsy(cfg["accountId"]) /\ Falsy(cfg["endpoint"])
    THEN InvalidConfig(prov, "Either accountId or endpoint must be provided", <<>>)
    ELSE IF Missing(prov, cfg) # <<>>
    THEN InvalidConfig(prov, "Missing required configuration", Missing(prov, cfg))
    ELSE IF IncludesSlash(cfg["bucket"])
    THEN InvalidConfig(prov, "Bucket name cannot contain slashes", <<>>)
    ELSE NoError

\* An own property of the instance. Cloudinary and R2 store the config with
\* Object.defineProperty(..., enumerable: false); S3 assigns this.config.
Property(key, enumerable, kind, cfg) ==
    [key |-> key, enumerable |-> enumerable, kind |-> kind, cfg |-> cfg]
OwnProperties(prov, cfg) ==
    << Property("name", TRUE, prov, NoConfig),
       Property("features", TRUE, "features", NoConfig),
       Property("client", TRUE, "null", NoConfig),
       Property("clientPromise", TRUE, "null", NoConfig),
       Property("config", prov = "s3", "config", cfg) >>

\* Object.entries(instance): the own enumerable properties with their values.
IsEnumerable(prop) == prop.enumerable
ObjectEntries(props) == SelectSeq(props, IsEnumerable)

\* toJSON() { return { name: this.name, features: this.features } }, which
\* JSON.stringify(instance) serialises in place of the instance.
InToJSON(prop) == prop.key \in {"name", "features"}
toJSON(props) == SelectSeq(props, InToJSON)

\* The configs a caller may pass to the constructor of `prov`.
FieldValues(field) ==
    IF field \in CredentialFields THEN {Absent, "", "a", "b"}
    ELSE IF field = "bucket" THEN {Absent, "", "a", "a/b"}
    ELSE IF field = "cloudName" THEN {Absent, "", " ", "a"}
    ELSE {Absent, "a"}
FieldsOf(prov) ==
    IF prov = "cloudinary" THEN {"cloudName", "apiKey", "apiSecret"}
    ELSE IF prov = "r2" THEN {"bucket", "accessKeyId", "secretAccessKey", "accountId", "endpoint"}
    ELSE {"region", "bucket", "accessKeyId", "secretAccessKey", "endpoint"}
ValuesFor(prov, field) ==
    IF field \in FieldsOf(prov) THEN FieldValues(field) ELSE {Absent}
Configs(prov) ==
    [cloudName : ValuesFor(prov, "cloudName"), apiKey : ValuesFor(prov, "apiKey"),
     apiSecret : ValuesFor(prov, "apiSecret"), region : ValuesFor(prov, "region"),
     bucket : ValuesFor(prov, "bucket"), accessKeyId : ValuesFor(prov, "accessKeyId"),
     secretAccessKey : ValuesFor(prov, "secretAccessKey"),
     accountId : ValuesFor(prov, "accountId"), endpoint : ValuesFor(prov, "endpoint")]

\* A config every constructor accepts.
ValidConfig(prov) ==
    [f \in ConfigFields |-> IF f \in FieldsOf(prov) /\ f # "endpoint" THEN "a" ELSE Absent]

NoView == [op |-> "none", value |-> <<>>]

\* No adapter constructed yet.
InitCtor ==
    /\ config = NoConfig
    /\ ctor_out = "none"
    /\ ctor_error = NoError
    /\ instance = <<>>
    /\ view = NoView

\* The adapter `provider` constructed from a valid config.
InitConstructed ==
    /\ config = ValidConfig(provider)
    /\ ctor_out = "constructed"
    /\ ctor_error = NoError
    /\ instance = OwnProperties(provider, ValidConfig(provider))
    /\ view = NoView

\* ------------------------------------------------------- key generation
\* Strings of base-36 digits are sequences of digit values 0..35.
Min(a, b) == IF a < b THEN a ELSE b
substring(str, start, end) == SubSeq(str, start + 1, Min(end, Len(str)))

\* b.toString(36) of a byte, and .padStart(2, '0').
toString36(b) == IF b < 36 THEN <<b>> ELSE <<b \div 36, b % 36>>
padStart2(str) == IF Len(str) < 2 THEN <<0>> \o str ELSE str

\* Array.from(buffer).map(b => b.toString(36).padStart(2, '0')).join('')
RECURSIVE JoinBytes(_)
JoinBytes(bytes) ==
    IF bytes = <<>> THEN <<>>
    ELSE padStart2(toString36(Head(bytes))) \o JoinBytes(Tail(bytes))

\* What one call draws from its environment: the six bytes of
\* getRandomValues, Date.now().toString(36), and the digits of
\* Math.random().toString(36) after "0.".
ByteSamples ==
    { <<0, 0, 0, 0, 0, 0>>, <<35, 36, 255, 1, 2, 3>>, <<35, 36, 255, 1, 9, 9>>,
      <<255, 255, 255, 255, 255, 255>> }
TimestampSamples == { <<21, 10, 3, 5, 0, 0, 0, 1>>, <<21, 10, 3, 5, 0, 0, 0, 2>> }
RandomSamples == { <<>>, <<18>>, <<1, 2, 3, 4, 5, 6, 7>> }
Draws ==
    [bytes : ByteSamples, ts : {<<21, 10, 3, 5, 0, 0, 0, 1>>}, rnd : {<<18>>}]
    \cup [bytes : {<<0, 0, 0, 0, 0, 0>>}, ts : TimestampSamples, rnd : RandomSamples]

\* generateShortId(): eight characters from Web Crypto, or the timestamp
\* followed by random digits, cut to twelve.
generateShortId(crypto, draw) ==
    IF crypto
    THEN substring(JoinBytes(draw.bytes), 0, 8)
    ELSE substring(draw.ts \o substring(draw.rnd, 0, 6), 0, 12)

\* A key `${folder}/${name}${stamp}${sep}${suffix}`: name is literal text,
\* stamp and suffix are digit strings.
Key(folder, name, stamp, sep, suffix) ==
    [folder |-> folder, name |-> name, stamp |-> stamp, sep |-> sep, suffix |-> suffix]

\* generateRandomId(): `${Date.now()}-${Math.random().toString(36).substring(2, 15)}`
generateRandomId(folder, draw) == Key(folder, "", draw.ts, "-", draw.rnd)

\* options?.folder ? `${options.folder}/` : ''
FolderOf(opts) == IF opts.folder \in {Absent, ""} THEN "" ELSE opts.folder

\* options?.uniqueFilename !== false
shouldMakeUniqueAlways(opts) == TRUE
shouldMakeUnique(opts) == opts.uniqueFilename # "false"

\* R2Provider.generateKey
generateKeyR2(opts, crypto, draw) ==
    IF opts.filename = Absent THEN generateRandomId(FolderOf(opts), draw)
    ELSE IF shouldMakeUnique(opts) /\ opts.filename # ""
    THEN Key(FolderOf(opts), opts.filename, <<>>, "-", generateShortId(crypto, draw))
    ELSE Key(FolderOf(opts), opts.filename, <<>>, "", <<>>)

\* S3Provider.generateKey: the filename as given, whatever uniqueFilename says.
generateKeyS3(opts, crypto, draw) ==
    IF opts.filename = Absent THEN generateRandomId(FolderOf(opts), draw)
    ELSE Key(FolderOf(opts), opts.filename, <<>>, "", <<>>)

\* CloudinaryProvider.mapOptions passes folder and public_id; the backend
\* stores the asset as folder/public_id and names it itself when no public_id
\* is sent.
publicIdCloudinary(opts, crypto, draw) ==
    IF opts.filename \in {Absent, ""} THEN Key(FolderOf(opts), "", <<>>, "", draw.rnd)
    ELSE IF shouldMakeUnique(opts)
    THEN Key(FolderOf(opts), opts.filename, <<>>, "-", generateShortId(crypto, draw))
    ELSE Key(FolderOf(opts), opts.filename, <<>>, "", <<>>)

generateKey(prov, opts, crypto, draw) ==
    IF prov = "cloudinary" THEN publicIdCloudinary(opts, crypto, draw)
    ELSE IF prov = "r2" THEN generateKeyR2(opts, crypto, draw)
    ELSE generateKeyS3(opts, crypto, draw)

KeyOptions ==
    [filename : {Absent, "", "avatar"}, folder : {Absent, "", "f"},
     uniqueFilename : {"omitted", "true", "false"}]
NoKeyOptions == [filename |-> Absent, folder |-> Absent, uniqueFilename |-> "omitted"]

\* No upload has targeted a key.
InitKey ==
    /\ keyOpts = NoKeyOptions
    /\ hasCrypto = TRUE
    /\ draws = <<>>
    /\ keys = <<>>
    /\ stored = {}
    /\ overwritten = FALSE

\* The state outside the operation under study: a constructed adapter, and
\* everything else at rest.
\* No call made on an uploader.
InitApi ==
    /\ hasSearch = FALSE
    /\ api_kind = "none"
    /\ api_arg = <<>>
    /\ api_out = [status |-> "none", value |-> FALSE, error |-> NoError]
    /\ providerLog = <<>>

\* No error caught.
InitMap ==
    /\ map_err = UpErr("", 0, {})
    /\ map_op = "upload"
    /\ map_out = NoError

\* No upload with a progress callback.
InitProg ==
    /\ prog_pc = "idle"
    /\ prog_file = "Buffer"
    /\ prog_total = 1
    /\ prog_loaded = 0
    /\ progress = <<>>

\* No batch upload with options.
InitOpt ==
    /\ callerOptions = -1
    /\ heap = <<>>
    /\ uploadArgs = <<>>

\* ---- the later sections at rest
RestCme ==
    /\ cme_code = "UPLOAD_FAILED"
    /\ cme_error = [t |-> "undefined", message |-> ""]
    /\ cme_details = "undefined"
    /\ cme_out = <<>>

RestUrl ==
    /\ url_config = "undefined"
    /\ url_id = ""
    /\ url_transform = <<>>
    /\ url_warnings = 0
    /\ url_out = <<>>

RestVal ==
    /\ val_opts = <<>>
    /\ val_file = <<>>
    /\ val_meta = {}
    /\ val_calls = 0
    /\ val_evaluated = <<>>
    /\ val_out = <<>>

RestBlend ==
    /\ bl_n = 0
    /\ bl_conc = 0
    /\ bl_buffer = FALSE
    /\ bl_pc = "idle"
    /\ bl_i = 0
    /\ bl_pos = <<>>
    /\ bl_seq = <<>>

RestStore ==
    /\ st_pc = "idle"
    /\ st_key = 0
    /\ st_multipart = FALSE
    /\ st_bucket = {}
    /\ st_parts = 0
    /\ st_stored = FALSE
    /\ st_out = Pending

RestShared ==
    /\ cachedCloudinary = FALSE
    /\ sdkConfig = 0
    /\ sh_promise = <<>>
    /\ sh_pc = <<>>
    /\ sh_done = <<>>
    /\ sh_executed = {}

RestAn ==
    /\ trackPerformance = FALSE
    /\ uploadStartTimes = {}
    /\ an_now = 0
    /\ an_pc = <<>>
    /\ an_id = <<>>
    /\ an_clean = TRUE

InitRest ==
    /\ RestCme
    /\ RestUrl
    /\ RestVal
    /\ RestBlend
    /\ RestStore
    /\ RestShared
    /\ RestAn

\* ---- end: the later sections at rest

InitMore == InitApi /\ InitMap /\ InitProg /\ InitOpt /\ InitRest

InitAuxRest == InitKey /\ InitMore
InitAux == InitConstructed /\ InitAuxRest

NoPipeError == [source |-> "none", plugin |-> 0]
PipePending == [status |-> "pending", value |-> <<>>, error |-> NoPipeError]

\* An uploader with no plugin registered and no upload under way.
InitPipe ==
    /\ plugins = <<>>
    /\ pipe_pc = "idle"
    /\ pipe_i = 0
    /\ pipe_args = <<>>
    /\ pipe_result = <<>>
    /\ log = <<>>
    /\ adapterCalls = 0
    /\ pipe_error = NoPipeError
    /\ pipe_out = PipePending

\* The batch operations of one adapter instance whose client is constructed;
\* one batch call per behaviour.
InitBatch ==
    /\ provider \in Providers
    /\ publicUrl = (provider = "r2")
    /\ InitDel
    /\ InitUp
    /\ clientPromise = "resolved"
    /\ client = 1
    /\ initStarts = 1
    /\ initDone = 1
    /\ clientsCreated = 1
    /\ cachedUpload = (provider # "cloudinary")
    /\ op_pc = [p \in 1..NumOps |-> "idle"]
    /\ op_kind = [p \in 1..NumOps |-> "none"]
    /\ op_early = [p \in 1..NumOps |-> FALSE]
    /\ op_resp = [p \in 1..NumOps |-> NoResponse]
    /\ op_out = [p \in 1..NumOps |-> Pending]
    /\ InitPipe
    /\ InitAux

NextBatch ==
    \/ deleteMultiple
    \/ \E k \in 1..MaxIds + 1 : k <= Len(ids) /\ DeleteSettles(k)
    \/ DeleteWindowJoin
    \/ uploadMultiple
    \/ \E k \in 1..MaxFiles + 1 : k <= Len(files) /\ UploadSettles(k)
    \/ UploadWindowJoin

SpecBatch == InitBatch /\ [][NextBatch]_vars

\* ------------------------------------- single operations and the lazy client
\* ensureClient(): TRUE when the call starts initializeClient, that is when no
\* client promise is stored yet; the test and the assignment of
\* this.clientPromise run without an intervening await.
ensureClientUsingClientField(cp, cl) == cl = 0
ensureClient(cp, cl) == cp = "none"

\* How initializeClient can end: the dynamic import of the SDK rejects, the
\* client constructor throws (new S3Client), or the client is built.
InitOutcomes(prov) ==
    {"resolved", "importFailed"} \cup (IF prov = "cloudinary" THEN {} ELSE {"constructFailed"})

OpKinds == {"upload", "delete", "get"}

\* What the backend call of a single operation can answer.
Responses(prov, kind) ==
    IF kind = "delete" THEN DeleteResponses(prov)
    ELSE {Returned("ok")} \cup {Thrown(e) : e \in SampleErrors}

\* The try/catch body of get(id). R2's get calls getUrl for the result, which
\* throws INVALID_CONFIG without publicUrl; the catch maps that MediaError to
\* the default FILE_NOT_FOUND.
getBody(prov, hasPublicUrl, resp) ==
    IF resp.tag = "throw"
    THEN Rejected(mapError(prov, resp.err, "get"))
    ELSE IF prov = "r2" /\ ~hasPublicUrl
    THEN Rejected(mapR2Error(UpErr("MediaError", 0, {}), "FILE_NOT_FOUND"))
    ELSE Resolved

opBody(prov, hasPublicUrl, kind, resp) ==
    IF kind = "upload" THEN uploadBody(prov, hasPublicUrl, resp)
    ELSE IF kind = "delete" THEN deleteBody(prov, resp)
    ELSE getBody(prov, hasPublicUrl, resp)

\* upload / delete / get is called: its first statement is
\* `await this.ensureClient()`, which runs up to the stored promise.
Call(p) ==
    /\ op_pc[p] = "idle"
    /\ \E kind \in OpKinds :
         /\ op_kind' = [op_kind EXCEPT ![p] = kind]
         /\ op_pc' = [op_pc EXCEPT ![p] = "awaitClient"]
    /\ op_early' = [op_early EXCEPT ![p] = (client = 0)]
    /\ IF ensureClient(clientPromise, client)
       THEN /\ clientPromise' = "pending"
            /\ initStarts' = initStarts + 1
       ELSE UNCHANGED <<clientPromise, initStarts>>
    /\ UNCHANGED <<cfgVars, auxVars, pipeVars, delVars, upVars, client, initDone, clientsCreated, cachedUpload,
                   op_resp, op_out>>

\* A started initializeClient runs to its end.
initializeClient ==
    /\ initDone < initStarts
    /\ initDone' = initDone + 1
    /\ \E outcome \in InitOutcomes(provider) :
         IF outcome = "resolved"
         THEN /\ clientsCreated' = clientsCreated + 1
              /\ client' = clientsCreated + 1
              /\ clientPromise' = "resolved"
         ELSE /\ clientPromise' = outcome
              /\ UNCHANGED <<client, clientsCreated>>
    /\ UNCHANGED <<cfgVars, auxVars, pipeVars, delVars, upVars, initStarts, cachedUpload,
                   op_pc, op_kind, op_early, op_resp, op_out>>

\* The operation resumes after `await this.ensureClient()`. The await is
\* outside the operation's try block: a rejected client promise rejects the
\* operation with the same error. R2 and S3 uploads go on to getUploadClass().
ClientSettled(p) ==
    /\ op_pc[p] = "awaitClient"
    /\ clientPromise \notin {"none", "pending"}
    /\ IF clientPromise # "resolved"
       THEN /\ op_pc' = [op_pc EXCEPT ![p] = "done"]
            /\ op_out' = [op_out EXCEPT ![p] = Rejected(InitFailure(clientPromise))]
       ELSE /\ op_pc' = [op_pc EXCEPT ![p] =
                            IF provider # "cloudinary" /\ op_kind[p] = "upload"
                            THEN "awaitUploadClass" ELSE "backend"]
            /\ UNCHANGED op_out
    /\ UNCHANGED <<cfgVars, auxVars, pipeVars, delVars, upVars, clientPromise, client, initStarts, initDone,
                   clientsCreated, cachedUpload, op_kind, op_early, op_resp>>

\* `await getUploadClass()`, also outside the try block: the cached class, or
\* a dynamic import of the upload library that may reject.
getUploadClass(p) ==
    /\ op_pc[p] = "awaitUploadClass"
    /\ \E loaded \in BOOLEAN :
         /\ cachedUpload => loaded
         /\ IF loaded
            THEN /\ cachedUpload' = TRUE
                 /\ op_pc' = [op_pc EXCEPT ![p] = "backend"]
                 /\ UNCHANGED op_out
            ELSE /\ op_pc' = [op_pc EXCEPT ![p] = "done"]
                 /\ op_out' = [op_out EXCEPT ![p] = Rejected(RawError("Cannot find module"))]
                 /\ UNCHANGED cachedUpload
    /\ UNCHANGED <<cfgVars, auxVars, pipeVars, delVars, upVars, clientPromise, client, initStarts, initDone,
                   clientsCreated, op_kind, op_early, op_resp>>

\* The backend call inside the try block answers and the operation settles.
BackendSettles(p) ==
    /\ op_pc[p] = "backend"
    /\ \E resp \in Responses(provider, op_kind[p]) :
         /\ op_resp' = [op_resp EXCEPT ![p] = resp]
         /\ op_out' = [op_out EXCEPT ![p] = opBody(provider, publicUrl, op_kind[p], resp)]
    /\ op_pc' = [op_pc EXCEPT ![p] = "done"]
    /\ UNCHANGED <<cfgVars, auxVars, pipeVars, delVars, upVars, clientPromise, client, initStarts, initDone,
                   clientsCreated, cachedUpload, op_kind, op_early>>

\* One freshly constructed adapter and NumOps calls on it, in any interleaving.
InitSingle == InitCfg /\ InitDel /\ InitUp /\ InitOps /\ InitPipe /\ InitAux

NextOps ==
    \/ \E p \in 1..NumOps : Call(p)
    \/ initializeClient
    \/ \E p \in 1..NumOps : ClientSettled(p)
    \/ \E p \in 1..NumOps : getUploadClass(p)
    \/ \E p \in 1..NumOps : BackendSettles(p)

SpecOps == InitSingle /\ [][NextOps]_vars

\* ---------------------------------------------- uploader plugin pipeline
\* A plugin is a name and a map of optional hooks; which hooks it defines is
\* all that matters to the order of execution.
PluginShapes == [before : BOOLEAN, after : BOOLEAN, onError : BOOLEAN]
HookPhases == {"before", "after", "onError"}
HasHook(plugin, phase) ==
    IF phase = "before" THEN plugin.before
    ELSE IF phase = "after" THEN plugin.after
    ELSE plugin.onError

\* The next plugin after position i, in registration order, that defines the
\* hook of `phase`; 0 when there is none.
NextHook(list, phase, i) ==
    LET rest == {j \in (i + 1)..Len(list) : HasHook(list[j], phase)}
    IN IF rest = {} THEN 0 ELSE CHOOSE j \in rest : \A k \in rest : j <= k

\* How a hook can end: with a returned value, with nothing, or by throwing.
HookOutcomes(phase) ==
    IF phase = "onError" THEN {"nothing", "throw"} ELSE {"value", "nothing", "throw"}

\* The (file, options) after plugin j's before-upload hook ended: the returned
\* pair, or the pair it received when it returned nothing.
Undefined == <<0>>
beforeResultUndefined(received, j, outcome) ==
    IF outcome = "nothing" THEN Undefined ELSE Append(received, j)
beforeResult(received, j, outcome) ==
    IF outcome = "nothing" THEN received ELSE Append(received, j)

\* The result after plugin j's after-upload hook ended, likewise.
afterResult(received, j, outcome) ==
    IF outcome = "nothing" THEN received ELSE Append(received, j)

\* Where the on-error phase resumes after plugin j's on-error hook ended:
\* with the next plugin, also when the hook threw (best effort).
onErrorResumeStopsOnThrow(list, j, outcome) ==
    IF outcome = "throw" THEN Len(list) ELSE j
onErrorResume(list, j, outcome) == j

\* The (file, options) the adapter's upload is invoked with, given the
\* caller's pair and the pair the before-upload hooks produced.
providerInputOriginal(original, final) == original
providerInput(original, final) == final

Running == log # <<>> /\ log[Len(log)].outcome = "running"

\* use(plugin): appends the plugin to the ordered list.
use ==
    /\ pipe_pc = "idle"
    /\ Len(plugins) < MaxPlugins
    /\ \E plugin \in PluginShapes : plugins' = Append(plugins, plugin)
    /\ UNCHANGED <<cfgVars, auxVars, delVars, upVars, opVars, pipe_pc, pipe_i, pipe_args, pipe_result,
                   log, adapterCalls, pipe_error, pipe_out>>

\* Uploader.upload(file, options) is called: the before-upload phase starts
\* with the caller's pair.
upload ==
    /\ pipe_pc = "idle"
    /\ pipe_pc' = "before"
    /\ pipe_i' = 0
    /\ pipe_args' = <<>>
    /\ UNCHANGED <<cfgVars, auxVars, delVars, upVars, opVars, plugins, pipe_result, log, adapterCalls,
                   pipe_error, pipe_out>>

\* The next hook of the current phase is called with the current value.
HookStarts ==
    /\ pipe_pc \in HookPhases
    /\ ~Running
    /\ LET j == NextHook(plugins, pipe_pc, pipe_i)
       IN /\ j # 0
          /\ pipe_i' = j
          /\ log' = Append(log, [phase |-> pipe_pc, plugin |-> j,
                                 received |-> IF pipe_pc = "before" THEN pipe_args
                                              ELSE IF pipe_pc = "after" THEN pipe_result
                                              ELSE <<>>,
                                 outcome |-> "running"])
    /\ UNCHANGED <<cfgVars, auxVars, delVars, upVars, opVars, plugins, pipe_pc, pipe_args, pipe_result,
                   adapterCalls, pipe_error, pipe_out>>

\* The running hook ends. A throwing before- or after-upload hook aborts the
\* pipeline and triggers the on-error hooks; a throwing on-error hook is
\* swallowed.
HookEnds ==
    /\ pipe_pc \in HookPhases
    /\ Running
    /\ \E outcome \in HookOutcomes(pipe_pc) :
         /\ log' = [log EXCEPT ![Len(log)].outcome = outcome]
         /\ IF pipe_pc = "onError"
            THEN /\ pipe_i' = onErrorResume(plugins, pipe_i, outcome)
                 /\ UNCHANGED <<pipe_pc, pipe_args, pipe_result, pipe_error>>
            ELSE IF outcome = "throw"
            THEN /\ pipe_pc' = "onError"
                 /\ pipe_i' = 0
                 /\ pipe_error' = [source |-> pipe_pc, plugin |-> pipe_i]
                 /\ UNCHANGED <<pipe_args, pipe_result>>
            ELSE IF pipe_pc = "before"
            THEN /\ pipe_args' = beforeResult(pipe_args, pipe_i, outcome)
                 /\ UNCHANGED <<pipe_pc, pipe_i, pipe_result, pipe_error>>
            ELSE /\ pipe_result' = afterResult(pipe_result, pipe_i, outcome)
                 /\ UNCHANGED <<pipe_pc, pipe_i, pipe_args, pipe_error>>
    /\ UNCHANGED <<cfgVars, auxVars, delVars, upVars, opVars, plugins, adapterCalls, pipe_out>>

\* All before-upload hooks have run: the facade delegates to the adapter,
\* `this.provider.upload(file, options)`.
providerUpload ==
    /\ pipe_pc = "before"
    /\ ~Running
    /\ NextHook(plugins, "before", pipe_i) = 0
    /\ pipe_pc' = "adapter"
    /\ adapterCalls' = adapterCalls + 1
    /\ log' = Append(log, [phase |-> "adapter", plugin |-> 0,
                           received |-> providerInput(<<>>, pipe_args),
                           outcome |-> "running"])
    /\ UNCHANGED <<cfgVars, auxVars, delVars, upVars, opVars, plugins, pipe_i, pipe_args, pipe_result,
                   pipe_error, pipe_out>>

\* The adapter's upload settles: its result starts the after-upload phase, its
\* rejection the on-error phase.
ProviderSettles ==
    /\ pipe_pc = "adapter"
    /\ \E outcome \in {"value", "throw"} :
         /\ log' = [log EXCEPT ![Len(log)].outcome = outcome]
         /\ IF outcome = "value"
            THEN /\ pipe_pc' = "after"
                 /\ pipe_result' = <<>>
                 /\ UNCHANGED pipe_error
            ELSE /\ pipe_pc' = "onError"
                 /\ pipe_error' = [source |-> "adapter", plugin |-> 0]
                 /\ UNCHANGED pipe_result
    /\ pipe_i' = 0
    /\ UNCHANGED <<cfgVars, auxVars, delVars, upVars, opVars, plugins, pipe_args, adapterCalls, pipe_out>>

\* The last phase has no hook left: upload resolves with the final result, or
\* rejects with the error that triggered the on-error hooks.
Settle ==
    /\ pipe_pc \in {"after", "onError"}
    /\ ~Running
    /\ NextHook(plugins, pipe_pc, pipe_i) = 0
    /\ IF pipe_pc = "after"
       THEN /\ pipe_pc' = "resolved"
            /\ pipe_out' = [status |-> "resolved", value |-> pipe_result, error |-> NoPipeError]
       ELSE /\ pipe_pc' = "rejected"
            /\ pipe_out' = [status |-> "rejected", value |-> <<>>, error |-> pipe_error]
    /\ UNCHANGED <<cfgVars, auxVars, delVars, upVars, opVars, plugins, pipe_i, pipe_args, pipe_result,
                   log, adapterCalls, pipe_error>>

\* One uploader over a constructed adapter: plugins are registered, then one
\* upload runs through the pipeline.
InitPipeline ==
    /\ provider = "cloudinary"
    /\ publicUrl = FALSE
    /\ InitDel
    /\ InitUp
    /\ InitOps
    /\ InitPipe
    /\ InitAux

NextPipeline ==
    \/ use
    \/ upload
    \/ HookStarts
    \/ HookEnds
    \/ providerUpload
    \/ ProviderSettles
    \/ Settle

SpecPipeline == InitPipeline /\ [][NextPipeline]_vars

\* ------------------------------------ constructing and inspecting an adapter
\* new CloudinaryProvider(config) / new R2Provider(config) / new
\* S3Provider(config): validation, then the config is stored. No statement
\* of a constructor touches the client or the network.
construct ==
    /\ ctor_out = "none"
    /\ \E cfg \in Configs(provider) :
         /\ config' = cfg
         /\ ctor_error' = Validate(provider, cfg)
         /\ IF Validate(provider, cfg) = NoError
            THEN /\ ctor_out' = "constructed"
                 /\ instance' = OwnProperties(provider, cfg)
            ELSE /\ ctor_out' = "threw"
                 /\ instance' = <<>>
    /\ UNCHANGED <<cfgVars, delVars, upVars, opVars, pipeVars, keyVars, moreVars, view>>

\* JSON.stringify(instance)
stringify ==
    /\ ctor_out = "constructed"
    /\ view' = [op |-> "JSON.stringify", value |-> toJSON(instance)]
    /\ UNCHANGED <<cfgVars, delVars, upVars, opVars, pipeVars, keyVars, moreVars, config, ctor_out,
                   ctor_error, instance>>

\* Object.entries(instance)
entries ==
    /\ ctor_out = "constructed"
    /\ view' = [op |-> "Object.entries", value |-> ObjectEntries(instance)]
    /\ UNCHANGED <<cfgVars, delVars, upVars, opVars, pipeVars, keyVars, moreVars, config, ctor_out,
                   ctor_error, instance>>

InitConfig ==
    /\ provider \in Providers
    /\ publicUrl = FALSE
    /\ InitDel
    /\ InitUp
    /\ InitOps
    /\ InitPipe
    /\ InitCtor
    /\ InitAuxRest

NextConfig ==
    \/ construct
    \/ stringify
    \/ entries

SpecConfig == InitConfig /\ [][NextConfig]_vars

\* ------------------------------------------ successive uploads and their keys
\* One successful upload(file, keyOpts): the key is generated and the object
\* is put under it (replacing what was there); the result's id is the key.
uploadToKey ==
    /\ Len(keys) < MaxUploads
    /\ \E draw \in Draws :
         LET key == generateKey(provider, keyOpts, hasCrypto, draw)
         IN /\ draws' = Append(draws, draw)
            /\ keys' = Append(keys, key)
            /\ stored' = stored \cup {key}
            /\ overwritten' = (overwritten \/ key \in stored)
    /\ UNCHANGED <<cfgVars, delVars, upVars, opVars, pipeVars, ctorVars, moreVars, keyOpts, hasCrypto>>

\* An adapter (R2 with publicUrl), a set of options and an environment with or
\* without Web Crypto.
InitKeys ==
    /\ provider \in Providers
    /\ publicUrl = (provider = "r2")
    /\ InitDel
    /\ InitUp
    /\ InitOps
    /\ InitPipe
    /\ InitConstructed
    /\ keyOpts \in KeyOptions
    /\ hasCrypto \in BOOLEAN
    /\ draws = <<>>
    /\ keys = <<>>
    /\ stored = {}
    /\ overwritten = FALSE
    /\ InitMore

NextKeys == uploadToKey

SpecKeys == InitKeys /\ [][NextKeys]_vars

\* ------------------------------------------- MediaUploader: supports, search
\* JavaScript values found in a feature matrix, by typeof; an object carries
\* its own properties.
JsBoolean(b) == [t |-> "boolean", v |-> b, props |-> <<>>]
JsNumber == [t |-> "number", v |-> FALSE, props |-> <<>>]
JsString == [t |-> "string", v |-> FALSE, props |-> <<>>]
JsFunction == [t |-> "function", v |-> FALSE, props |-> <<>>]
JsObject(props) == [t |-> "object", v |-> FALSE, props |-> props]

\* The providers an uploader is exercised with: the test suite's MockProvider,
\* CloudinaryProvider and S3Provider.
UploaderProviders == {"mock", "cloudinary", "s3"}

TransformationNames == {"resize", "crop", "format", "quality", "blur", "rotate", "effects"}

CapabilityNames ==
    {"signedUploads", "directUpload", "multipartUpload", "videoProcessing",
     "aiTagging", "facialDetection"}

\* storage: { maxFileSize: <number>, supportedFormats: [<string>, ...] }
Storage ==
    JsObject([k \in {"maxFileSize", "supportedFormats"} |->
                IF k = "maxFileSize" THEN JsNumber
                ELSE JsObject([j \in {"0", "length"} |->
                                 IF j = "0" THEN JsString ELSE JsNumber])])

\* A feature matrix with the given transformations and capabilities set true.
Matrix(transformations, capabilities) ==
    JsObject([k \in {"transformations", "capabilities", "storage"} |->
                IF k = "transformations"
                THEN JsObject([n \in TransformationNames |-> JsBoolean(n \in transformations)])
                ELSE IF k = "capabilities"
                THEN JsObject([n \in CapabilityNames |-> JsBoolean(n \in capabilities)])
                ELSE Storage])

\* provider.features
features(prov) ==
    IF prov = "cloudinary" THEN Matrix(TransformationNames, CapabilityNames)
    ELSE IF prov = "s3"
    THEN Matrix({}, {"signedUploads", "directUpload", "multipartUpload"})
    ELSE Matrix({"resize", "crop", "format", "quality"}, {"signedUploads", "directUpload"})

\* Properties every object inherits from Object.prototype (`in` sees them);
\* their values are functions.
Inherited == {"constructor", "toString"}

\* A feature string is a sequence of pieces: "." or a piece of a name.
FeaturePieces ==
    {".", "transformations", "blur", "storage", "maxFileSize", "constructor", "nonexistent"}

\* feature.split('.'): the pieces between the dots; "" gives one empty part.
RECURSIVE split(_)
split(s) ==
    IF \A k \in 1..Len(s) : s[k] # "."
    THEN <<s>>
    ELSE LET d == CHOOSE k \in 1..Len(s) : s[k] = "." /\ \A j \in 1..(k - 1) : s[j] # "."
         IN <<SubSeq(s, 1, d - 1)>> \o split(SubSeq(s, d + 1, Len(s)))

\* The property name a part spells: a single piece is that name; the empty
\* part and a part of several pieces spell names no object here has.
NameOf(part) == IF Len(part) = 1 THEN part[1] ELSE "<other>"

\* typeof current === 'object' && current !== null && part in current
In(part, current) ==
    /\ current.t = "object"
    /\ (NameOf(part) \in DOMAIN current.props \/ NameOf(part) \in Inherited)

\* current[part]
Get(current, part) ==
    IF NameOf(part) \in DOMAIN current.props THEN current.props[NameOf(part)]
    ELSE JsFunction

\* A truthiness test in place of the strict comparison.
IsTruthy(current) == current.t # "boolean" \/ current.v

\* current === true
IsTrue(current) == current.t = "boolean" /\ current.v

\* The loop of supports over the parts still to walk, and its return.
RECURSIVE walk(_, _)
walk(current, parts) ==
    IF parts = <<>> THEN IsTrue(current)
    ELSE IF In(Head(parts), current)
    THEN walk(Get(current, Head(parts)), Tail(parts))
    ELSE FALSE

\* MediaUploader.supports(feature)
supports(prov, feature) == walk(features(prov), split(feature))

RECURSIVE SeqsUpTo(_, _)
SeqsUpTo(S, n) ==
    IF n = 0 THEN {<<>>}
    ELSE LET shorter == SeqsUpTo(S, n - 1)
         IN shorter \cup {Append(q, x) : q \in shorter, x \in S}

FeatureStrings == SeqsUpTo(FeaturePieces, MaxFeatureLen)

ApiReturned(b) == [status |-> "returned", value |-> b, error |-> NoError]
ApiResolved == [status |-> "resolved", value |-> FALSE, error |-> NoError]
ApiRejected(e) == [status |-> "rejected", value |-> FALSE, error |-> e]

\* `Search is not supported by ${this.provider.name} provider`
SearchUnsupportedMessage(prov) ==
    IF prov = "mock" THEN "Search is not supported by mock provider"
    ELSE IF prov = "cloudinary" THEN "Search is not supported by cloudinary provider"
    ELSE "Search is not supported by s3 provider"

\* What provider.search(query) settles with when the provider has it.
SearchResponses(prov) ==
    {ApiResolved,
     ApiRejected(createMediaError("PROVIDER_ERROR", prov, Msg("upstream"), NoDetails))}

\* MediaUploader.search(query), given the provider's answer
search(prov, has, resp) ==
    IF ~has THEN ApiRejected(RawError(SearchUnsupportedMessage(prov)))
    ELSE resp

othersOfApi == <<cfgVars, delVars, upVars, opVars, pipeVars, ctorVars, keyVars, mapVars, progVars, optVars,
                 restVars>>

\* uploader.supports(feature), the one call made on this uploader
callSupports ==
    /\ api_kind = "none"
    /\ \E feature \in FeatureStrings :
         /\ api_arg' = feature
         /\ api_out' = ApiReturned(supports(provider, feature))
    /\ api_kind' = "supports"
    /\ UNCHANGED <<othersOfApi, hasSearch, providerLog>>

\* await uploader.search(query), the one call made on this uploader
callSearch ==
    /\ api_kind = "none"
    /\ \E resp \in SearchResponses(provider) :
         api_out' = search(provider, hasSearch, resp)
    /\ api_kind' = "search"
    /\ api_arg' = <<>>
    /\ UNCHANGED <<othersOfApi, hasSearch, providerLog>>

\* The operations MediaUploader hands to its provider, and the arguments they
\* are called with here ("undefined": the optional argument left out).
DelegatedOps == {"upload", "delete", "get", "getUrl", "uploadMultiple", "deleteMultiple"}

DelegateArgs(op) ==
    IF op = "upload" THEN {<<"file", "options">>, <<"file", "undefined">>}
    ELSE IF op = "getUrl" THEN {<<"id", "transform">>, <<"id", "undefined">>}
    ELSE IF op = "uploadMultiple" THEN {<<"files", "options">>, <<"files", "undefined">>}
    ELSE IF op = "deleteMultiple" THEN {<<"ids">>}
    ELSE {<<"id">>}

\* What the provider's operation answers: a value, or an error of its own.
AdapterAnswers(prov) ==
    {[tag |-> "value", result |-> "result A", error |-> NoError],
     [tag |-> "value", result |-> "result B", error |-> NoError],
     [tag |-> "error", result |-> "",
      error |-> createMediaError("UPLOAD_FAILED", prov, Msg("upstream"), NoDetails)],
     [tag |-> "error", result |-> "", error |-> RawError("Cannot find module")]}

\* The delegation with the optional second argument left behind.
delegateFirstArgumentOnly(op, args, answer) ==
    [call |-> [op |-> op, args |-> <<args[1]>>, answer |-> answer],
     out |-> [status |-> IF answer.tag = "value" THEN "resolved" ELSE "rejected",
              value |-> answer.result, error |-> answer.error]]

\* return this.provider.<op>(...args): the call made on the provider and what
\* the uploader's method gives back (getUrl is synchronous).
delegate(op, args, answer) ==
    [call |-> [op |-> op, args |-> args, answer |-> answer],
     out |-> [status |-> IF op = "getUrl"
                         THEN (IF answer.tag = "value" THEN "returned" ELSE "threw")
                         ELSE (IF answer.tag = "value" THEN "resolved" ELSE "rejected"),
              value |-> answer.result, error |-> answer.error]]

\* uploader.upload / delete / get / getUrl / uploadMultiple / deleteMultiple,
\* the one call made on this uploader
callDelegated ==
    /\ api_kind = "none"
    /\ \E op \in DelegatedOps : \E args \in DelegateArgs(op) :
       \E answer \in AdapterAnswers(provider) :
         LET d == delegate(op, args, answer)
         IN /\ api_kind' = op
            /\ api_arg' = args
            /\ providerLog' = Append(providerLog, d.call)
            /\ api_out' = d.out
    /\ UNCHANGED <<othersOfApi, hasSearch>>

\* An uploader around a provider; only the mock has (and can lose) search.
InitUploader ==
    /\ provider \in UploaderProviders
    /\ publicUrl = FALSE
    /\ InitDel
    /\ InitUp
    /\ InitOps
    /\ InitPipe
    /\ InitConstructed
    /\ InitKey
    /\ hasSearch \in (IF provider = "mock" THEN BOOLEAN ELSE {FALSE})
    /\ api_kind = "none"
    /\ api_arg = <<>>
    /\ api_out = [status |-> "none", value |-> FALSE, error |-> NoError]
    /\ providerLog = <<>>
    /\ InitMap
    /\ InitProg
    /\ InitOpt
    /\ InitRest

NextUploader ==
    \/ callSupports
    \/ callSearch
    \/ callDelegated

SpecUploader == InitUploader /\ [][NextUploader]_vars

\* --------------------------------------------- the error mapping on its own
\* The signals an upstream error can carry: its name, its HTTP status and the
\* marker substrings of its message.
ErrorNames ==
    {"Error", "NoSuchBucket", "AccessDenied", "InvalidAccessKeyId", "SignatureDoesNotMatch",
     "NoSuchKey", "SlowDown", "ServiceUnavailable", "TimeoutError", "EntityTooLarge"}

HttpCodes == {0, 401, 402, 403, 404, 408, 413, 500, 503}

MessageMarkers ==
    {"Invalid API key", "quota", "not found", "timeout", "ETIMEDOUT", "ECONNRESET",
     "Invalid image file", "File size too large"}

ErrorInputs ==
    {UpErr(n, h, m) : n \in ErrorNames, h \in HttpCodes,
                      m \in {x \in SUBSET MessageMarkers : Cardinality(x) <= MaxMarkers}}

Operations == {"upload", "delete", "get"}

\* catch (error) { throw this.mapCloudinaryError(error, op) } /
\* catch (error) { this.mapS3Error(error, defaultCode) }
mapCaught ==
    /\ map_out = NoError
    /\ map_out' = mapError(provider, map_err, map_op)
    /\ UNCHANGED <<cfgVars, delVars, upVars, opVars, pipeVars, ctorVars, keyVars, apiVars,
                   progVars, optVars, restVars, map_err, map_op>>

InitErrors ==
    /\ provider \in Providers
    /\ publicUrl = FALSE
    /\ InitDel
    /\ InitUp
    /\ InitOps
    /\ InitPipe
    /\ InitConstructed
    /\ InitKey
    /\ InitApi
    /\ map_err \in ErrorInputs
    /\ map_op \in Operations
    /\ map_out = NoError
    /\ InitProg
    /\ InitOpt
    /\ InitRest

NextErrors == mapCaught

SpecErrors == InitErrors /\ [][NextErrors]_vars

\* ------------------------------------------------ upload with onProgress
othersOfProg == <<cfgVars, delVars, upVars, opVars, pipeVars, ctorVars, keyVars, apiVars, mapVars,
                  optVars, restVars>>

\* (progress.loaded / progress.total) * 100, its integer part
percentComplete(loaded, total) == (loaded * 100) \div total

\* upload(file, { onProgress }) up to its first await after the client:
\* Cloudinary calls onProgress(0); R2 and S3 build the Upload and register the
\* httpUploadProgress listener.
beginUpload ==
    /\ prog_pc = "idle"
    /\ progress' = (IF provider = "cloudinary" THEN <<0>> ELSE <<>>)
    /\ prog_pc' = (IF provider = "cloudinary" THEN "prepared" ELSE "uploading")
    /\ UNCHANGED <<othersOfProg, prog_file, prog_total, prog_loaded>>

\* Cloudinary, after getFileType: onProgress(30) for a Buffer, onProgress(10)
\* otherwise; then onProgress(50) and the backend upload starts.
startBackendUpload ==
    /\ prog_pc = "prepared"
    /\ progress' = progress \o <<IF prog_file = "Buffer" THEN 30 ELSE 10, 50>>
    /\ prog_pc' = "uploading"
    /\ UNCHANGED <<othersOfProg, prog_file, prog_total, prog_loaded>>

\* R2 / S3: the SDK emits httpUploadProgress after a part was sent; the
\* listener calls onProgress only if progress.total is truthy.
httpUploadProgress ==
    /\ prog_pc = "uploading"
    /\ provider # "cloudinary"
    /\ prog_loaded < (IF prog_total = 0 THEN 1 ELSE prog_total)
    /\ prog_loaded' = (IF prog_total = 0 THEN 1 ELSE prog_loaded + 1)
    /\ progress' = (IF prog_total # 0
                    THEN Append(progress, percentComplete(prog_loaded + 1, prog_total))
                    ELSE progress)
    /\ UNCHANGED <<othersOfProg, prog_pc, prog_file, prog_total>>

\* The backend upload succeeds: Cloudinary calls onProgress(100); R2 / S3
\* return once every part was sent.
uploadDone ==
    /\ prog_pc = "uploading"
    /\ provider # "cloudinary" => prog_loaded = (IF prog_total = 0 THEN 1 ELSE prog_total)
    /\ progress' = (IF provider = "cloudinary" THEN Append(progress, 100) ELSE progress)
    /\ prog_pc' = "resolved"
    /\ UNCHANGED <<othersOfProg, prog_file, prog_total, prog_loaded>>

\* The backend upload fails: the catch block maps the error, no further call.
uploadFails ==
    /\ prog_pc = "uploading"
    /\ prog_pc' = "rejected"
    /\ UNCHANGED <<othersOfProg, prog_file, prog_total, prog_loaded, progress>>

InitProgress ==
    /\ provider \in Providers
    /\ publicUrl = FALSE
    /\ InitDel
    /\ InitUp
    /\ InitOps
    /\ InitPipe
    /\ InitConstructed
    /\ InitKey
    /\ InitApi
    /\ InitMap
    /\ prog_pc = "idle"
    /\ prog_file \in {"Buffer", "File"}
    /\ prog_total \in 0..MaxParts
    /\ prog_loaded = 0
    /\ progress = <<>>
    /\ InitOpt
    /\ InitRest

NextProgress ==
    \/ beginUpload
    \/ startBackendUpload
    \/ httpUploadProgress
    \/ uploadDone
    \/ uploadFails

SpecProgress == InitProgress /\ [][NextProgress]_vars

\* ------------------------------- uploadMultiple: the options of each upload
\* Objects are told apart by identity: heap[k + 1] holds the keys of object k.
\* -1 stands for undefined.
BatchOnlyKeys == {"concurrency", "onBatchProgress"}

OptionKeys == {"folder", "onProgress"} \cup BatchOnlyKeys

KeysOf(h, id) == h[id + 1]

\* The keys of the object the map callback builds for one file:
\* Cloudinary: { ...restOptions } plus a wrapping onProgress, then the two
\* deletes; R2: the rest after { concurrency, onBatchProgress };
\* S3: the rest after { concurrency }.
fileOptions(prov, ks) ==
    IF prov = "cloudinary" THEN ks \ BatchOnlyKeys
    ELSE IF prov = "r2" THEN ks \ {"concurrency", "onBatchProgress"}
    ELSE ks \ {"concurrency"}

\* Object.ks(uploadOptions).length > 0 ? uploadOptions : undefined (R2, S3);
\* Cloudinary always passes the object.
PassesObject(prov, ks) == prov = "cloudinary" \/ ks # {}

\* The map callback for the next file of the batch: `options ?? {}` is
\* destructured into a new object, and this.upload(file, ...) is called.
mapFile ==
    /\ Len(uploadArgs) < MaxBatch
    /\ LET source == IF callerOptions = -1 THEN {} ELSE KeysOf(heap, callerOptions)
           ks == fileOptions(provider, source)
           id == Len(heap)
       IN /\ heap' = Append(heap, ks)
          /\ uploadArgs' = Append(uploadArgs, IF PassesObject(provider, ks) THEN id ELSE -1)
    /\ UNCHANGED <<cfgVars, delVars, upVars, opVars, pipeVars, ctorVars, keyVars, apiVars,
                   mapVars, progVars, restVars, callerOptions>>

\* uploadMultiple(files, options) with options undefined or an object (object
\* 0) holding any of the option keys.
InitOptions ==
    /\ provider \in Providers
    /\ publicUrl = FALSE
    /\ InitDel
    /\ InitUp
    /\ InitOps
    /\ InitPipe
    /\ InitConstructed
    /\ InitKey
    /\ InitApi
    /\ InitMap
    /\ InitProg
    /\ \E given \in {<<>>} \cup {<<ks>> : ks \in SUBSET OptionKeys} :
         /\ callerOptions = (IF given = <<>> THEN -1 ELSE 0)
         /\ heap = given
    /\ uploadArgs = <<>>
    /\ InitRest

NextOptions == mapFile

SpecOptions == InitOptions /\ [][NextOptions]_vars

\* ---- everything but one section at rest
QuietExceptCme ==
    /\ InitDel
    /\ InitUp
    /\ InitOps
    /\ InitPipe
    /\ InitConstructed
    /\ InitKey
    /\ InitApi
    /\ InitMap
    /\ InitProg
    /\ InitOpt
    /\ RestUrl
    /\ RestVal
    /\ RestBlend
    /\ RestStore
    /\ RestShared
    /\ RestAn

QuietExceptUrl ==
    /\ InitDel
    /\ InitUp
    /\ InitOps
    /\ InitPipe
    /\ InitConstructed
    /\ InitKey
    /\ InitApi
    /\ InitMap
    /\ InitProg
    /\ InitOpt
    /\ RestCme
    /\ RestVal
    /\ RestBlend
    /\ RestStore
    /\ RestShared
    /\ RestAn

QuietExceptVal ==
    /\ InitDel
    /\ InitUp
    /\ InitOps
    /\ InitPipe
    /\ InitConstructed
    /\ InitKey
    /\ InitApi
    /\ InitMap
    /\ InitProg
    /\ InitOpt
    /\ RestCme
    /\ RestUrl
    /\ RestBlend
    /\ RestStore
    /\ RestShared
    /\ RestAn

QuietExceptBlend ==
    /\ InitDel
    /\ InitUp
    /\ InitOps
    /\ InitPipe
    /\ InitConstructed
    /\ InitKey
    /\ InitApi
    /\ InitMap
    /\ InitProg
    /\ InitOpt
    /\ RestCme
    /\ RestUrl
    /\ RestVal
    /\ RestStore
    /\ RestShared
    /\ RestAn

QuietExceptStore ==
    /\ InitDel
    /\ InitUp
    /\ InitOps
    /\ InitPipe
    /\ InitConstructed
    /\ InitKey
    /\ InitApi
    /\ InitMap
    /\ InitProg
    /\ InitOpt
    /\ RestCme
    /\ RestUrl
    /\ RestVal
    /\ RestBlend
    /\ RestShared
    /\ RestAn

QuietExceptShared ==
    /\ InitDel
    /\ InitUp
    /\ InitOps
    /\ InitPipe
    /\ InitConstructed
    /\ InitKey
    /\ InitApi
    /\ InitMap
    /\ InitProg
    /\ InitOpt
    /\ RestCme
    /\ RestUrl
    /\ RestVal
    /\ RestBlend
    /\ RestStore
    /\ RestAn

QuietExceptAn ==
    /\ InitDel
    /\ InitUp
    /\ InitOps
    /\ InitPipe
    /\ InitConstructed
    /\ InitKey
    /\ InitApi
    /\ InitMap
    /\ InitProg
    /\ InitOpt
    /\ RestCme
    /\ RestUrl
    /\ RestVal
    /\ RestBlend
    /\ RestStore
    /\ RestShared

\* ---- end: everything but one section at rest

\* ------------------------------------------------------ further operations

\* ------------------------------------------------------- createMediaError
\* The values an upstream `error: unknown` can be: by kind of value, with its
\* own `message` property ("" when it has none).
JsValue(t, message) == [t |-> t, message |-> message]

ErrorClasses == {"Error", "TypeError", "MediaError"}

UpstreamValues ==
    {JsValue("null", ""), JsValue("undefined", ""), JsValue("string", ""),
     JsValue("object", ""), JsValue("object", "Something went wrong"),
     JsValue("Error", "Something went wrong"), JsValue("Error", ""),
     JsValue("TypeError", "fetch failed"), JsValue("MediaError", "File not found")}

\* error instanceof Error
instanceofError(error) == error.t \in ErrorClasses

\* The message taken from whatever has a message property.
messageOfAnythingWithMessage(error) ==
    IF error.message # "" THEN error.message ELSE "An unknown error occurred"

\* error instanceof Error ? error.message : 'An unknown error occurred'
messageOf(error) ==
    IF instanceofError(error) THEN error.message ELSE "An unknown error occurred"

\* new MediaError(message, code, provider, originalError, details)
NewMediaError(message, code, prov, originalError, details) ==
    [name |-> "MediaError", message |-> message, code |-> code, provider |-> prov,
     originalError |-> originalError, details |-> details]

\* createMediaError(code, provider, error, additionalDetails), as written
createMediaErrorFrom(code, prov, error, additionalDetails) ==
    [tag |-> "returned",
     value |-> NewMediaError(messageOf(error), code, prov, error, additionalDetails)]

callCreateMediaError ==
    /\ cme_out = <<>>
    /\ cme_out' = <<createMediaErrorFrom(cme_code, provider, cme_error, cme_details)>>
    /\ UNCHANGED <<othersOfCme, cme_code, cme_error, cme_details>>

InitCreate ==
    /\ provider \in Providers
    /\ publicUrl = FALSE
    /\ QuietExceptCme
    /\ cme_code \in MediaErrorCode
    /\ cme_error \in UpstreamValues
    /\ cme_details \in {"undefined", "details"}
    /\ cme_out = <<>>

NextCreate == callCreateMediaError

SpecCreate == InitCreate /\ [][NextCreate]_vars

\* ------------------------------------------------------- R2Provider.getUrl
PublicUrls == {"undefined", "", "https://cdn.example.com", "https://cdn.example.com/"}

UrlIds == {"", "avatar", "uploads/avatar.png", "a b.png", "avatar-k3x9q2mz"}

\* transform: omitted (<<>>), or an object with the keys listed
Transforms == {<<>>} \cup {<<ks>> : ks \in {{}, {"width"}, {"width", "height"}}}

\* transform && Object.keys(transform).length > 0
HasTransform(transform) == transform # <<>> /\ transform[1] # {}

UrlReturned(parts) == [tag |-> "returned", url |-> parts, error |-> NoError]
UrlThrew(e) == [tag |-> "threw", url |-> <<>>, error |-> e]

\* getUrl refusing a transform it cannot apply.
getUrlRejectingTransform(base, id, transform) ==
    IF HasTransform(transform) \/ base \in {"undefined", ""}
    THEN UrlThrew(createMediaError("INVALID_CONFIG", "r2",
                                   Msg("publicUrl must be configured for R2"), NoDetails))
    ELSE UrlReturned(<<base, "/", id>>)

\* R2Provider.getUrl: `!this.config.publicUrl` throws INVALID_CONFIG, else the
\* template `${this.config.publicUrl}/${id}` (its pieces, in order).
getUrl(base, id, transform) ==
    IF base \in {"undefined", ""}
    THEN UrlThrew(createMediaError("INVALID_CONFIG", "r2",
                                   Msg("publicUrl must be configured for R2"), NoDetails))
    ELSE UrlReturned(<<base, "/", id>>)

\* provider.getUrl(id, transform): the warning first, then the check.
callGetUrl ==
    /\ url_out = <<>>
    /\ url_warnings' = url_warnings + (IF HasTransform(url_transform) THEN 1 ELSE 0)
    /\ url_out' = <<getUrl(url_config, url_id, url_transform)>>
    /\ UNCHANGED <<othersOfUrl, url_config, url_id, url_transform>>

InitUrl ==
    /\ provider = "r2"
    /\ url_config \in PublicUrls
    /\ publicUrl = (url_config \notin {"undefined", ""})
    /\ QuietExceptUrl
    /\ url_id \in UrlIds
    /\ url_transform \in Transforms
    /\ url_warnings = 0
    /\ url_out = <<>>

NextUrl == callGetUrl

SpecUrl == InitUrl /\ [][NextUrl]_vars

\* ------------------------------------------------- file-validation plugin
\* The same checks with the type check ahead of the size checks.
ChecksTypeFirst ==
    <<"allowedTypes", "maxSize", "minSize", "blockedExtensions", "allowedExtensions",
      "customValidator">>

\* The checks of beforeUpload in the order the code makes them.
Checks ==
    <<"maxSize", "minSize", "allowedTypes", "blockedExtensions", "allowedExtensions",
      "customValidator">>

\* What getFileInfo returns for the files used: size (in units), MIME type as
\* <<major, minor>> (<<"", "">>: none detected) and extension.
FileInfos ==
    {[size |-> n, type |-> k[1], ext |-> k[2]] :
        n \in 0..MaxFileSize,
        k \in {<<<<"image", "png">>, ".png">>,
               <<<<"application", "x-msdownload">>, ".exe">>,
               <<<<"", "">>, "">>}}

\* The plugin options: 0 stands for an omitted number, <<>> for an omitted list
\* (<<l>>: the list l), "none" for an omitted function; a customValidator is
\* given by what it answers.
ValidationOptions ==
    [maxSize : {0, 2}, minSize : {0, 2},
     allowedTypes : {<<>>, <<{}>>, <<{<<"image", "*">>}>>, <<{<<"application", "x-msdownload">>}>>},
     blockedExtensions : {<<>>, <<{".exe"}>>},
     allowedExtensions : {<<>>, <<{}>>, <<{".png"}>>},
     customValidator : {"none", "true", "false", "throws"},
     onValidationFailed : BOOLEAN]

\* type.endsWith('/*') ? fileType.startsWith(baseType) : fileType === type
TypeMatches(pattern, fileType) ==
    IF pattern[2] = "*" THEN fileType[1] = pattern[1] ELSE fileType = pattern

\* The guard in front of a check: the option is given (and truthy / non-empty).
Guarded(opts, check) ==
    CASE check = "maxSize" -> opts.maxSize # 0
      [] check = "minSize" -> opts.minSize # 0
      [] check = "allowedTypes" -> opts.allowedTypes # <<>> /\ opts.allowedTypes[1] # {}
      [] check = "blockedExtensions" -> opts.blockedExtensions # <<>>
      [] check = "allowedExtensions" ->
             opts.allowedExtensions # <<>> /\ opts.allowedExtensions[1] # {}
      [] check = "customValidator" -> opts.customValidator # "none"

\* The condition under which a guarded check rejects the file.
Rejects(opts, info, check) ==
    CASE check = "maxSize" -> info.size > opts.maxSize
      [] check = "minSize" -> info.size < opts.minSize
      [] check = "allowedTypes" -> ~ \E p \in opts.allowedTypes[1] : TypeMatches(p, info.type)
      [] check = "blockedExtensions" -> info.ext \in opts.blockedExtensions[1]
      [] check = "allowedExtensions" -> info.ext \notin opts.allowedExtensions[1]
      [] check = "customValidator" -> opts.customValidator = "false"

\* The code of the MediaError a check throws.
CodeOf(check) == IF check = "maxSize" THEN "FILE_TOO_LARGE" ELSE "INVALID_FILE_TYPE"

\* { ...uploadOptions, metadata: { ...uploadOptions.metadata, validation } }
enrichedMetadata(meta) == meta \cup {"validation"}

\* beforeUpload from check number k on: the checks evaluated so far are `seen`.
RECURSIVE validateFrom(_, _, _, _, _)
validateFrom(order, k, opts, info, meta) ==
    IF k > Len(order)
    THEN [status |-> "resolved", error |-> NoError, failedAt |-> "none",
          calls |-> 0, evaluated |-> order, metadata |-> enrichedMetadata(meta)]
    ELSE IF Guarded(opts, order[k]) /\ order[k] = "customValidator"
            /\ opts.customValidator = "throws"
    THEN [status |-> "rejected", error |-> RawError("validator threw"), failedAt |-> "none",
          calls |-> 0, evaluated |-> SubSeq(order, 1, k), metadata |-> {}]
    ELSE IF Guarded(opts, order[k]) /\ Rejects(opts, info, order[k])
    THEN [status |-> "rejected",
          error |-> MediaError(Msg("validation failed"), CodeOf(order[k]),
                               "validation-plugin", NoDetails),
          failedAt |-> order[k],
          calls |-> IF opts.onValidationFailed THEN 1 ELSE 0,
          evaluated |-> SubSeq(order, 1, k), metadata |-> {}]
    ELSE validateFrom(order, k + 1, opts, info, meta)

\* hooks.beforeUpload(file, uploadOptions) of createFileValidationPlugin(options)
beforeUpload ==
    /\ val_out = <<>>
    /\ LET r == validateFrom(Checks, 1, val_opts, val_file, val_meta)
       IN /\ val_out' = <<r>>
          /\ val_calls' = val_calls + r.calls
          /\ val_evaluated' = r.evaluated
    /\ UNCHANGED <<othersOfVal, val_opts, val_file, val_meta>>

InitValidation ==
    /\ provider \in Providers
    /\ publicUrl = FALSE
    /\ QuietExceptVal
    /\ val_opts \in ValidationOptions
    /\ val_file \in FileInfos
    /\ val_meta \in {{}, {"owner"}, {"owner", "validation"}}
    /\ val_calls = 0
    /\ val_evaluated = <<>>
    /\ val_out = <<>>

NextValidation == beforeUpload

SpecValidation == InitValidation /\ [][NextValidation]_vars

\* ------------------------------------------------ termination of the batches
\* The batch operations when every individual upload or delete that is in
\* flight settles in the end and every awaited Promise.all / allSettled that
\* can resume does resume (the event loop runs every ready continuation).
BatchFairness ==
    /\ \A k \in 1..MaxFiles : WF_vars(k <= Len(files) /\ UploadSettles(k))
    /\ \A k \in 1..MaxIds : WF_vars(k <= Len(ids) /\ DeleteSettles(k))
    /\ WF_vars(UploadWindowJoin)
    /\ WF_vars(DeleteWindowJoin)

SpecBatchFair == InitBatch /\ [][NextBatch]_vars /\ BatchFairness

\* ------------------------------- CloudinaryProvider.uploadMultiple: onProgress
\* Math.round(x) of the non-negative rational num / den.
MathRound(num, den) == (2 * num + den) \div (2 * den)

\* The wrapper installed as fileOptions.onProgress for the file at globalIndex:
\* Math.round(((globalIndex + percent / 100) / files.length) * 100)
overallProgress(globalIndex, percent, n) == MathRound(100 * globalIndex + percent, n)

\* The files of the window files.slice(i, i + concurrency), as 1-based positions.
BlendWindow(i, n, c) == {k \in 1..n : i < k /\ k <= i + c}

StartBlendWindow(pos, i, n, c) ==
    [k \in 1..n |-> IF k \in BlendWindow(i, n, c) THEN "awaitClient" ELSE pos[k]]

\* uploadMultiple(files, { concurrency, onProgress }) is called: the first
\* window's uploads are started.
uploadMultipleWithProgress ==
    /\ bl_pc = "idle"
    /\ bl_pc' = "window"
    /\ bl_pos' = StartBlendWindow(bl_pos, 0, bl_n, bl_conc)
    /\ UNCHANGED <<othersOfBlend, bl_n, bl_conc, bl_buffer, bl_i, bl_seq>>

\* upload of file k resumes after ensureClient and mapOptions: onProgress(0);
\* a File goes on to onProgress(10) and onProgress(50) and calls the backend,
\* a Buffer first awaits getFileType.
uploadReportsStart(k) ==
    /\ bl_pc \in {"window", "rejected"}
    /\ bl_pos[k] = "awaitClient"
    /\ IF bl_buffer
       THEN /\ bl_seq' = Append(bl_seq, overallProgress(k - 1, 0, bl_n))
            /\ bl_pos' = [bl_pos EXCEPT ![k] = "awaitType"]
       ELSE /\ bl_seq' = bl_seq \o <<overallProgress(k - 1, 0, bl_n),
                                     overallProgress(k - 1, 10, bl_n),
                                     overallProgress(k - 1, 50, bl_n)>>
            /\ bl_pos' = [bl_pos EXCEPT ![k] = "awaitBackend"]
    /\ UNCHANGED <<othersOfBlend, bl_n, bl_conc, bl_buffer, bl_pc, bl_i>>

\* getFileType(file) has resolved for a Buffer: onProgress(30), onProgress(50),
\* then the backend is called.
uploadTypeDetected(k) ==
    /\ bl_pc \in {"window", "rejected"}
    /\ bl_pos[k] = "awaitType"
    /\ bl_seq' = bl_seq \o <<overallProgress(k - 1, 30, bl_n), overallProgress(k - 1, 50, bl_n)>>
    /\ bl_pos' = [bl_pos EXCEPT ![k] = "awaitBackend"]
    /\ UNCHANGED <<othersOfBlend, bl_n, bl_conc, bl_buffer, bl_pc, bl_i>>

\* client.uploader.upload resolved for file k: onProgress(100).
uploadBackendResolves(k) ==
    /\ bl_pc \in {"window", "rejected"}
    /\ bl_pos[k] = "awaitBackend"
    /\ bl_seq' = Append(bl_seq, overallProgress(k - 1, 100, bl_n))
    /\ bl_pos' = [bl_pos EXCEPT ![k] = "done"]
    /\ UNCHANGED <<othersOfBlend, bl_n, bl_conc, bl_buffer, bl_pc, bl_i>>

\* client.uploader.upload rejected for file k: upload throws, Promise.all and
\* with it uploadMultiple reject; the other uploads of the window go on.
uploadBackendRejects(k) ==
    /\ bl_pc \in {"window", "rejected"}
    /\ bl_pos[k] = "awaitBackend"
    /\ bl_pos' = [bl_pos EXCEPT ![k] = "failed"]
    /\ bl_pc' = "rejected"
    /\ UNCHANGED <<othersOfBlend, bl_n, bl_conc, bl_buffer, bl_i, bl_seq>>

\* Promise.all of the window fulfilled: next window, or return results.
blendWindowJoin ==
    /\ bl_pc = "window"
    /\ \A k \in BlendWindow(bl_i, bl_n, bl_conc) : bl_pos[k] = "done"
    /\ bl_i' = bl_i + bl_conc
    /\ IF bl_i + bl_conc < bl_n
       THEN /\ bl_pos' = StartBlendWindow(bl_pos, bl_i + bl_conc, bl_n, bl_conc)
            /\ UNCHANGED bl_pc
       ELSE /\ bl_pc' = "resolved"
            /\ UNCHANGED bl_pos
    /\ UNCHANGED <<othersOfBlend, bl_n, bl_conc, bl_buffer, bl_seq>>

InitBlend ==
    /\ provider = "cloudinary"
    /\ publicUrl = FALSE
    /\ QuietExceptBlend
    /\ bl_n \in 1..MaxBlendFiles
    /\ bl_conc \in 1..MaxBlendFiles
    /\ bl_buffer \in BOOLEAN
    /\ bl_pc = "idle"
    /\ bl_i = 0
    /\ bl_pos = [k \in 1..bl_n |-> "new"]
    /\ bl_seq = <<>>

NextBlend ==
    \/ uploadMultipleWithProgress
    \/ \E k \in 1..MaxBlendFiles + 1 : k <= bl_n /\ uploadReportsStart(k)
    \/ \E k \in 1..MaxBlendFiles + 1 : k <= bl_n /\ uploadTypeDetected(k)
    \/ \E k \in 1..MaxBlendFiles + 1 : k <= bl_n /\ uploadBackendResolves(k)
    \/ \E k \in 1..MaxBlendFiles + 1 : k <= bl_n /\ uploadBackendRejects(k)
    \/ blendWindowJoin

SpecBlend == InitBlend /\ [][NextBlend]_vars

\* ----------------------------------------- R2Provider.upload and the bucket
StoreKeys == 1..MaxStoreKeys

\* R2Provider.upload(file, options) is called; the client and the Upload class
\* are available, generateKey picks the key, new Upload({...}) is built and
\* upload.done() is awaited.
r2UploadStarts ==
    /\ st_pc = "idle"
    /\ \E key \in StoreKeys : \E multi \in BOOLEAN :
          /\ st_key' = key
          /\ st_multipart' = multi
    /\ st_pc' = "uploading"
    /\ UNCHANGED <<othersOfStore, st_bucket, st_parts, st_stored, st_out>>

\* await this.ensureClient() rejects: upload rejects before its try block.
r2ClientFails ==
    /\ st_pc = "idle"
    /\ st_pc' = "settled"
    /\ st_out' = Rejected(InitFailure("importFailed"))
    /\ UNCHANGED <<othersOfStore, st_key, st_multipart, st_bucket, st_parts, st_stored>>

\* The Upload class has sent one more part of a multi-part transfer.
r2PartSent ==
    /\ st_pc = "uploading"
    /\ st_multipart
    /\ st_parts < MaxStoreParts
    /\ st_parts' = st_parts + 1
    /\ UNCHANGED <<othersOfStore, st_pc, st_key, st_multipart, st_bucket, st_stored, st_out>>

\* upload.done() settles. On a failure the Upload class, built with
\* leavePartsOnError: false, aborts the transfer and the catch maps the error.
\* On success the object is stored under the key, then createResult(key, ...)
\* runs inside the same try block.
r2UploadDone ==
    /\ st_pc = "uploading"
    /\ \E resp \in BatchUploadResponses :
          /\ st_out' = uploadBody(provider, publicUrl, resp)
          /\ IF resp.tag = "throw"
             THEN UNCHANGED <<st_bucket, st_stored>>
             ELSE /\ st_bucket' = st_bucket \cup {st_key}
                  /\ st_stored' = TRUE
    /\ st_parts' = 0
    /\ st_pc' = "settled"
    /\ UNCHANGED <<othersOfStore, st_key, st_multipart>>

InitStore ==
    /\ provider = "r2"
    /\ publicUrl \in BOOLEAN
    /\ QuietExceptStore
    /\ st_pc = "idle"
    /\ st_key = 0
    /\ st_multipart = FALSE
    /\ st_bucket \in SUBSET StoreKeys
    /\ st_parts = 0
    /\ st_stored = FALSE
    /\ st_out = Pending

NextStore ==
    \/ r2UploadStarts
    \/ r2ClientFails
    \/ r2PartSent
    \/ r2UploadDone

SpecStore == InitStore /\ [][NextStore]_vars

\* ------------------------------- CloudinaryProvider instances sharing the SDK
\* The instances, each constructed with a configuration of its own; instance a
\* holds configuration a.
Instances == 1..NumInstances

\* An operation (upload, delete or get) is called on instance a:
\* `const client = await this.ensureClient()`. The first call stores
\* this.clientPromise = this.initializeClient(), which awaits getCloudinarySDK().
instanceOpStarts(a) ==
    /\ sh_pc[a] = "idle"
    /\ sh_done[a] < MaxInstanceOps
    /\ sh_pc' = [sh_pc EXCEPT ![a] = "awaitClient"]
    /\ sh_promise' = [sh_promise EXCEPT ![a] = IF @ = "none" THEN "pending" ELSE @]
    /\ UNCHANGED <<othersOfShared, cachedCloudinary, sdkConfig, sh_done, sh_executed>>

\* cloudinary.config({...}) of instance a, applied to the one SDK object of the
\* module: the SDK now holds a's cloud name and credentials.
configSharedClient(a, held) == a

\* initializeClient of instance a resumes after getCloudinarySDK(): the SDK
\* module is cached, configured with this.config and stored as this.client.
instanceClientReady(a) ==
    /\ sh_promise[a] = "pending"
    /\ cachedCloudinary' = TRUE
    /\ sdkConfig' = configSharedClient(a, sdkConfig)
    /\ sh_promise' = [sh_promise EXCEPT ![a] = "resolved"]
    /\ UNCHANGED <<othersOfShared, sh_pc, sh_done, sh_executed>>

\* The operation on instance a resumes with its client and makes the backend
\* call (client.uploader.upload / destroy / api.resource): the call is signed
\* with whatever configuration the SDK object holds now.
instanceOpRuns(a) ==
    /\ sh_pc[a] = "awaitClient"
    /\ sh_promise[a] = "resolved"
    /\ sh_pc' = [sh_pc EXCEPT ![a] = "awaitBackend"]
    /\ sh_executed' = sh_executed \cup {<<a, sdkConfig>>}
    /\ UNCHANGED <<othersOfShared, cachedCloudinary, sdkConfig, sh_promise, sh_done>>

\* The backend call of instance a settles and the operation returns.
instanceOpSettles(a) ==
    /\ sh_pc[a] = "awaitBackend"
    /\ sh_pc' = [sh_pc EXCEPT ![a] = "idle"]
    /\ sh_done' = [sh_done EXCEPT ![a] = @ + 1]
    /\ UNCHANGED <<othersOfShared, cachedCloudinary, sdkConfig, sh_promise, sh_executed>>

InitShared ==
    /\ provider = "cloudinary"
    /\ publicUrl = FALSE
    /\ QuietExceptShared
    /\ cachedCloudinary = FALSE
    /\ sdkConfig = 0
    /\ sh_promise = [a \in Instances |-> "none"]
    /\ sh_pc = [a \in Instances |-> "idle"]
    /\ sh_done = [a \in Instances |-> 0]
    /\ sh_executed = {}

NextShared ==
    \/ \E a \in Instances : instanceOpStarts(a)
    \/ \E a \in Instances : instanceClientReady(a)
    \/ \E a \in Instances : instanceOpRuns(a)
    \/ \E a \in Instances : instanceOpSettles(a)

SpecShared == InitShared /\ [][NextShared]_vars

\* --------------------------------------------------------- analytics plugin
\* The uploads running through one Uploader with the analytics plugin.
UploadSlots == 1..MaxUploads

\* File names (file.name, or options.filename || 'unknown' for a Buffer).
FileNames == {"a.png", "b.png"}

\* `${fileName}-${Date.now()}`
uploadIdOf(fileName, now) == <<fileName, now>>

\* TRUE when the adapter's UploadResult carries the metadata of the options it
\* was called with: R2's createResult does (metadata || {}), Cloudinary's
\* normalizeResult and S3's createResult build a metadata object of their own.
EchoesMetadata(prov) == prov = "r2"

InFlight == {u \in UploadSlots : an_pc[u] = "inflight"}

\* Date.now() moves on by a millisecond.
clockTicks ==
    /\ an_now < MaxClock
    /\ an_now' = an_now + 1
    /\ UNCHANGED <<othersOfAn, trackPerformance, uploadStartTimes, an_pc, an_id, an_clean>>

\* hooks.beforeUpload(file, uploadOptions) for upload u.
analyticsBeforeUpload(u) ==
    /\ an_pc[u] = "idle"
    /\ \E fileName \in FileNames :
         LET uploadId == uploadIdOf(fileName, an_now)
         IN /\ uploadStartTimes' =
                   IF trackPerformance THEN uploadStartTimes \cup {uploadId}
                   ELSE uploadStartTimes
            /\ an_id' = [an_id EXCEPT ![u] = uploadId]
            /\ an_clean' = (an_clean /\ \A v \in InFlight : an_id[v] # uploadId)
    /\ an_pc' = [an_pc EXCEPT ![u] = "inflight"]
    /\ UNCHANGED <<othersOfAn, trackPerformance, an_now>>

\* The adapter's upload resolved and hooks.afterUpload(result) runs for
\* upload u: the uploadId is read from result.metadata._analyticsUploadId.
analyticsAfterUpload(u) ==
    /\ an_pc[u] = "inflight"
    /\ uploadStartTimes' =
          IF trackPerformance /\ EchoesMetadata(provider) /\ an_id[u] \in uploadStartTimes
          THEN uploadStartTimes \ {an_id[u]}
          ELSE uploadStartTimes
    /\ an_pc' = [an_pc EXCEPT ![u] = "idle"]
    /\ UNCHANGED <<othersOfAn, trackPerformance, an_now, an_id, an_clean>>

\* The adapter's upload rejected and hooks.onError(error, context) runs for
\* upload u: counters and callbacks only.
analyticsOnError(u) ==
    /\ an_pc[u] = "inflight"
    /\ an_pc' = [an_pc EXCEPT ![u] = "idle"]
    /\ an_clean' = FALSE
    /\ UNCHANGED <<othersOfAn, trackPerformance, uploadStartTimes, an_now, an_id>>

InitAnalytics ==
    /\ provider \in Providers
    /\ publicUrl = (provider = "r2")
    /\ QuietExceptAn
    /\ trackPerformance \in BOOLEAN
    /\ uploadStartTimes = {}
    /\ an_now = 0
    /\ an_pc = [u \in UploadSlots |-> "idle"]
    /\ an_id = [u \in UploadSlots |-> <<"", 0>>]
    /\ an_clean = TRUE

NextAnalytics ==
    \/ clockTicks
    \/ \E u \in UploadSlots : analyticsBeforeUpload(u)
    \/ \E u \in UploadSlots : analyticsAfterUpload(u)
    \/ \E u \in UploadSlots : analyticsOnError(u)

SpecAnalytics == InitAnalytics /\ [][NextAnalytics]_vars

\* ---------------------------------------------------------------- claims
DelSettled == del_pc \in {"resolved", "rejected"}
DelInFlight == {k \in 1..Len(ids) : del_state[k] = "inflight"}
UpInFlight == {k \in 1..Len(files) : up_state[k] = "inflight"}
DelFailedPositions == {k \in 1..Len(ids) : del_state[k] = "fail"}

\* C1: deleteMultiple(ids) invokes delete exactly once for every one of the N
\* ids whatever deletes fail: no position is ever deleted twice, every
\* position of the windows reached so far has been started although earlier
\* deletes failed, and the call settles only when all N deletes have been
\* invoked once and have settled.
C1_EveryIdDeletedOnce ==
    /\ \A k \in 1..Len(ids) : del_calls[k] <= 1
    /\ del_pc = "window" =>
         \A k \in 1..Len(ids) :
            (k <= del_i + 10) => (del_calls[k] = 1 /\ del_state[k] # "new")
    /\ DelSettled =>
         \A k \in 1..Len(ids) : del_calls[k] = 1 /\ del_state[k] \in {"ok", "fail"}

\* A call of 11 ids has settled, deletes of the first window had failed and
\* the delete of the second window still ran.
C1_Witness ==
    /\ del_pc = "rejected"
    /\ Len(ids) = 11
    /\ del_state[1] = "fail" /\ del_state[2] = "fail"
    /\ del_state[11] = "ok" /\ del_calls[11] = 1

\* C2 (as claimed): when K >= 1 deletes fail the call rejects with a
\* DELETE_FAILED MediaError whose details report K failed, N total and the
\* failed ids in input order; when K = 0 it resolves.
C2_AggregateDetails ==
    DelSettled =>
      IF DelFailedPositions = {}
      THEN del_pc = "resolved"
      ELSE /\ del_pc = "rejected"
           /\ del_error.type = "MediaError"
           /\ del_error.code = "DELETE_FAILED"
           /\ del_error.details.present
           /\ del_error.details.count = Cardinality(DelFailedPositions)
           /\ del_error.details.total = Len(ids)
           /\ del_error.details.list = RejectedIds(ids, del_state, 1, Len(ids))

\* Three ids of which the second failed: the call has rejected with an
\* aggregate error that carries no details.
C2_Witness ==
    /\ del_pc = "rejected"
    /\ Len(ids) = 3
    /\ del_state = <<"ok", "fail", "ok">>
    /\ ~del_error.details.present

\* What the code does report, in the message text only.
AggregateMessageReports ==
    DelSettled =>
      IF DelFailedPositions = {}
      THEN del_pc = "resolved" /\ del_error = NoError
      ELSE /\ del_pc = "rejected"
           /\ del_error.type = "MediaError"
           /\ del_error.code = "DELETE_FAILED"
           /\ del_error.provider = provider
           /\ ~del_error.details.present
           /\ del_error.message.count = Cardinality(DelFailedPositions)
           /\ del_error.message.total = Len(ids)
           /\ del_error.message.list = RejectedIds(ids, del_state, 1, Len(ids))

\* C3: a successful uploadMultiple returns exactly N results and result[i]
\* is the result of uploading files[i], for every N, every concurrency bound
\* C >= 1 and every completion order.
C3_ResultsInInputOrder ==
    up_pc = "resolved" =>
      /\ Len(results) = Len(files)
      /\ \A k \in 1..Len(files) : results[k] = UploadResultOf(provider, files[k])

\* Four files uploaded two at a time have all succeeded, the last window's
\* uploads having completed in reverse order.
C3_Witness ==
    /\ up_pc = "resolved"
    /\ Len(files) = 4
    /\ optConcurrency = <<2>>
    /\ up_order = <<4, 3>>

\* The bound the caller asked for (5 when omitted), and the window of a
\* position under a bound.
CallerBound == IF optConcurrency = <<>> THEN 5 ELSE optConcurrency[1]
WindowOf(k, c) == (k - 1) \div c

\* Nothing of a later window is started before every operation of the
\* earlier windows has settled (windows of C positions, for C >= 1; with
\* C <= 0 no window after the first holds any position).
WindowsSequential ==
    /\ (up_pc # "idle" /\ CallerBound >= 1) =>
         \A j, k \in 1..Len(files) :
            (WindowOf(k, CallerBound) < WindowOf(j, CallerBound) /\ up_state[j] # "new")
               => up_state[k] \in {"ok", "fail"}
    /\ del_pc # "idle" =>
         \A j, k \in 1..Len(ids) :
            (WindowOf(k, 10) < WindowOf(j, 10) /\ del_state[j] # "new")
               => del_state[k] \in {"ok", "fail"}

\* C4: never more than C (default 5) uploads in flight during uploadMultiple,
\* never more than 10 deletes in flight during deleteMultiple, and nothing of
\* a later window is started before every operation of the earlier windows
\* has settled.
C4_BoundedWindows ==
    /\ Cardinality(UpInFlight) <= CallerBound
    /\ Cardinality(DelInFlight) <= 10
    /\ WindowsSequential

\* What the code guarantees: the bound on uploads in flight for C >= 1 (5
\* when omitted), the bound of 10 on deletes, and sequential windows.
BoundedWindowsForPositiveBound ==
    /\ CallerBound >= 1 => Cardinality(UpInFlight) <= CallerBound
    /\ CallerBound <= 0 => (Len(files) = 0 \/ Cardinality(UpInFlight) < Len(files))
    /\ Cardinality(DelInFlight) <= 10
    /\ WindowsSequential

\* uploadMultiple of three files with concurrency -1: files.slice(0, -1)
\* started two uploads at once.
C4_Witness ==
    /\ up_pc = "window"
    /\ optConcurrency = <<0 - 1>>
    /\ Len(files) = 3
    /\ up_state = <<"inflight", "inflight", "new">>

\* With the default bound the first window of five has settled and the sixth
\* upload, alone in the second window, is in flight.
DefaultBoundSecondWindow ==
    /\ up_pc = "window"
    /\ optConcurrency = <<>>
    /\ Len(files) = 6
    /\ up_i = 5
    /\ up_state[6] = "inflight"
    /\ \A k \in 1..5 : up_state[k] = "ok"

\* C5: on one adapter instance the backend client is initialised exactly once.
\* The constructor creates none; the first operation starts the one
\* initialisation, whatever the number and kinds of operations started before
\* it ends; at most one client is ever constructed; the handle is set exactly
\* when that initialisation succeeded and is never another client or null
\* again; every operation that got past ensureClient uses that client.
C5_ClientInitialisedOnce ==
    /\ initStarts <= 1
    /\ clientsCreated <= 1
    /\ (\A p \in 1..NumOps : op_pc[p] = "idle") =>
          (clientPromise = "none" /\ client = 0 /\ initStarts = 0 /\ clientsCreated = 0)
    /\ (\E p \in 1..NumOps : op_pc[p] # "idle") => initStarts = 1
    /\ (client # 0) <=> (clientPromise = "resolved")
    /\ clientPromise = "resolved" => (client = 1 /\ clientsCreated = 1)
    /\ \A p \in 1..NumOps :
         (op_pc[p] \in {"awaitUploadClass", "backend"} \/ op_resp[p] # NoResponse) => client = 1

\* An upload and a delete both started before the client existed, both
\* completed on the one client.
C5_Witness ==
    /\ op_early[1] /\ op_early[2]
    /\ op_kind[1] = "upload" /\ op_kind[2] = "delete"
    /\ op_pc[1] = "done" /\ op_pc[2] = "done"
    /\ op_out[1] = Resolved /\ op_out[2] = Resolved
    /\ initStarts = 1 /\ clientsCreated = 1 /\ client = 1

\* Positions of the log by phase, and the plugins defining a hook.
LogOf(phase) == {n \in 1..Len(log) : log[n].phase = phase}
PluginsWith(phase) == {j \in 1..Len(plugins) : HasHook(plugins[j], phase)}
PhaseRank(phase) ==
    IF phase = "before" THEN 1 ELSE IF phase = "adapter" THEN 2
    ELSE IF phase = "after" THEN 3 ELSE 4
BeforeThrowAt(n) == log[n].phase = "before" /\ log[n].outcome = "throw"

HandedOn(e) == IF e.outcome = "value" THEN Append(e.received, e.plugin) ELSE e.received

NotFoundReport(resp) ==
    \/ resp.tag = "value" /\ resp.result = "not found"
    \/ resp.tag = "throw" /\ (resp.err.http = 404 \/ resp.err.name = "NoSuchKey")

\* C9: delete(id) of an id the backend reports as not existing (a 'not found'
\* result, an HTTP 404 status or a NoSuchKey error) resolves successfully, on
\* every adapter.
C9_DeleteNotFoundResolves ==
    \A p \in 1..NumOps :
        (op_pc[p] = "done" /\ op_kind[p] = "delete" /\ NotFoundReport(op_resp[p]))
            => op_out[p] = Resolved

\* What the adapters do: only Cloudinary's returned 'not found' result
\* resolves; a thrown 404 / NoSuchKey rejects, with FILE_NOT_FOUND (S3, which
\* maps by error name only, rejects a nameless 404 with DELETE_FAILED).
DeleteNotFoundOutcome ==
    \A p \in 1..NumOps :
        (op_pc[p] = "done" /\ op_kind[p] = "delete" /\ NotFoundReport(op_resp[p]))
            => IF op_resp[p].tag = "value"
               THEN op_out[p] = Resolved
               ELSE /\ op_out[p].status = "rejected"
                    /\ op_out[p].error.type = "MediaError"
                    /\ op_out[p].error.code =
                          IF provider = "s3" /\ op_resp[p].err.name # "NoSuchKey"
                          THEN "DELETE_FAILED" ELSE "FILE_NOT_FOUND"

\* An R2 delete answered with NoSuchKey has rejected.
C9_Witness ==
    /\ provider = "r2"
    /\ op_pc[1] = "done" /\ op_kind[1] = "delete"
    /\ op_resp[1] = Thrown(UpErr("NoSuchKey", 404, {}))
    /\ op_out[1].status = "rejected"

\* C10: every rejection of an adapter operation, a failure to load or
\* construct the backend client included, is a MediaError carrying one of the
\* enumerated kinds and the adapter's name.
C10_EveryRejectionIsMediaError ==
    \A p \in 1..NumOps :
        op_out[p].status = "rejected" =>
            /\ op_out[p].error.type = "MediaError"
            /\ op_out[p].error.code \in MediaErrorCode
            /\ op_out[p].error.provider = provider

\* What the adapters do: a rejection is a MediaError of the adapter exactly
\* when the backend call inside the try block was reached.
RejectionsFromBackendAreMediaErrors ==
    \A p \in 1..NumOps :
        (op_out[p].status = "rejected" /\ op_resp[p] # NoResponse) =>
            /\ op_out[p].error.type = "MediaError"
            /\ op_out[p].error.code \in MediaErrorCode
            /\ op_out[p].error.provider = provider

\* An operation rejected with the raw error of a failed SDK import.
C10_Witness ==
    /\ clientPromise = "importFailed"
    /\ op_pc[1] = "done"
    /\ op_out[1] = Rejected(RawError("Cannot find module"))

\* The config the constructor got misses a required field (undefined or
\* empty), or names a bucket with a slash.
RequiredFieldMissing ==
    \/ \E f \in FieldsOf(provider) \ {"accountId", "endpoint"} : config[f] \in {Absent, ""}
    \/ provider = "r2" /\ config["accountId"] \in {Absent, ""} /\ config["endpoint"] \in {Absent, ""}
BucketHasSlash == provider # "cloudinary" /\ config["bucket"] = "a/b"

\* C11: a constructor given a config in which a required field is missing or
\* empty, or whose bucket name contains '/', throws a MediaError of kind
\* INVALID_CONFIG naming the adapter, and at that point no client has been
\* created and no initialisation (the only network-bound step) was started.
C11_InvalidConfigThrows ==
    (ctor_out # "none" /\ (RequiredFieldMissing \/ BucketHasSlash)) =>
        /\ ctor_out = "threw"
        /\ ctor_error.type = "MediaError"
        /\ ctor_error.code = "INVALID_CONFIG"
        /\ ctor_error.provider = provider
        /\ instance = <<>>
        /\ client = 0 /\ clientPromise = "none" /\ initStarts = 0 /\ clientsCreated = 0

\* The S3 constructor has thrown for a config whose only flaw is an empty
\* secretAccessKey.
C11_Witness ==
    /\ provider = "s3"
    /\ ctor_out = "threw"
    /\ config["secretAccessKey"] = ""
    /\ config["region"] = "a" /\ config["bucket"] = "a" /\ config["accessKeyId"] = "a"
    /\ ctor_error.code = "INVALID_CONFIG"

\* The configs that differ from cfg in credential fields only.
SameButCredentials(cfg) ==
    {other \in Configs(provider) :
        \A f \in ConfigFields \ CredentialFields : other[f] = cfg[f]}

\* What the operation of the current view produces for an instance.
ViewOf(op, props) == IF op = "JSON.stringify" THEN toJSON(props) ELSE ObjectEntries(props)
ShowsCredential(value) ==
    \E n \in 1..Len(value) : \E f \in CredentialFields : value[n].cfg[f] # Absent

\* C20: JSON serialisation of an adapter instance and enumeration of its own
\* enumerable properties show no credential field, and come out the same for
\* any instance constructed from a config that differs in credentials only.
C20_CredentialsNotExposed ==
    view.op # "none" =>
        /\ ~ShowsCredential(view.value)
        /\ \A other \in SameButCredentials(config) :
             Validate(provider, other) = NoError =>
                ViewOf(view.op, OwnProperties(provider, other)) = view.value

\* What the adapters guarantee: JSON.stringify never shows a credential, and
\* the enumerable properties of a Cloudinary or R2 instance do not either.
CredentialsHiddenWhereGuarded ==
    (view.op = "JSON.stringify" \/ (view.op # "none" /\ provider # "s3")) =>
        /\ ~ShowsCredential(view.value)
        /\ \A other \in SameButCredentials(config) :
             Validate(provider, other) = NoError =>
                ViewOf(view.op, OwnProperties(provider, other)) = view.value

\* Object.entries of an S3Provider lists its config property, secret included.
C20_Witness ==
    /\ provider = "s3"
    /\ view.op = "Object.entries"
    /\ Len(view.value) = 5
    /\ view.value[5].key = "config"
    /\ view.value[5].cfg["secretAccessKey"] = "a"

\* The caller named the file, and asked (or did not ask) for the name as is.
FilenameGiven == keyOpts.filename \notin {Absent, ""}
WantsUnique == keyOpts.uniqueFilename \in {"omitted", "true"}
FolderPrefix == IF keyOpts.folder \in {Absent, ""} THEN "" ELSE keyOpts.folder

\* C12: with filename n and uniqueFilename false every upload targets the
\* key n, or f/n when folder f is given, with no suffix, separator or other
\* alteration; the result's id is that key.
C12_ExactKeyWhenNotUnique ==
    (FilenameGiven /\ keyOpts.uniqueFilename = "false") =>
        \A n \in 1..Len(keys) :
            keys[n] = [folder |-> FolderPrefix, name |-> keyOpts.filename,
                       stamp |-> <<>>, sep |-> "", suffix |-> <<>>]

\* Two R2 uploads of "avatar" into folder "f" with uniqueFilename false both
\* targeted f/avatar.
C12_Witness ==
    /\ provider = "r2"
    /\ keyOpts = [filename |-> "avatar", folder |-> "f", uniqueFilename |-> "false"]
    /\ Len(keys) = 2
    /\ keys[1] = Key("f", "avatar", <<>>, "", <<>>)
    /\ keys[2] = keys[1]

\* A key made of the folder, the filename, '-' and 6 to 12 lowercase
\* alphanumeric characters.
HasUniqueSuffix(key) ==
    /\ key.folder = FolderPrefix
    /\ key.name = keyOpts.filename
    /\ key.stamp = <<>>
    /\ key.sep = "-"
    /\ Len(key.suffix) >= 6 /\ Len(key.suffix) <= 12
    /\ \A d \in 1..Len(key.suffix) : key.suffix[d] \in 0..35

\* C13: on every adapter, with a filename given and uniqueFilename omitted or
\* true, the key is the filename, '-' and a suffix of 6 to 12 lowercase
\* alphanumeric characters (after the folder when one is given), with Web
\* Crypto and with the timestamp fallback alike.
C13_UniqueSuffixShape ==
    (FilenameGiven /\ WantsUnique) => \A n \in 1..Len(keys) : HasUniqueSuffix(keys[n])

\* What the adapters do: Cloudinary and R2 append such a suffix (eight
\* characters with Web Crypto, eight to twelve without), S3 appends none.
SuffixShapePerAdapter ==
    (FilenameGiven /\ WantsUnique) =>
        \A n \in 1..Len(keys) :
            IF provider = "s3"
            THEN keys[n] = Key(FolderPrefix, keyOpts.filename, <<>>, "", <<>>)
            ELSE /\ HasUniqueSuffix(keys[n])
                 /\ Len(keys[n].suffix) >= 8
                 /\ hasCrypto => Len(keys[n].suffix) = 8

\* An S3 upload of "avatar" with uniqueFilename omitted targeted the bare key.
C13_Witness ==
    /\ provider = "s3"
    /\ keyOpts = [filename |-> "avatar", folder |-> Absent, uniqueFilename |-> "omitted"]
    /\ Len(keys) = 1
    /\ keys[1] = Key("", "avatar", <<>>, "", <<>>)

\* C14: two uploads on one adapter with the same filename and folder, and
\* uniqueFilename omitted or true, never get the same key, so no upload
\* overwrites the object stored by an earlier one.
C14_DistinctKeys ==
    (FilenameGiven /\ WantsUnique) =>
        /\ \A n, m \in 1..Len(keys) : n # m => keys[n] # keys[m]
        /\ ~overwritten

\* What the adapters do: on Cloudinary and R2 two keys coincide only when
\* the random sources gave both calls the same characters; on S3 always.
KeysCoincideOnlyOnEqualDraws ==
    (FilenameGiven /\ WantsUnique /\ provider # "s3") =>
        \A n, m \in 1..Len(keys) :
            keys[n] = keys[m] =>
                generateShortId(hasCrypto, draws[n]) = generateShortId(hasCrypto, draws[m])

\* The second S3 upload of "avatar" replaced the object of the first.
C14_Witness ==
    /\ provider = "s3"
    /\ keyOpts = [filename |-> "avatar", folder |-> Absent, uniqueFilename |-> "true"]
    /\ Len(keys) = 2
    /\ keys[1] = keys[2]
    /\ overwritten

\* ---- C15: supports(path) returns true exactly when every dot-separated segment
\* of path resolves through the adapter's feature matrix and the value reached
\* is the boolean true; for any other string it returns false; it never throws.
\* The paths of a matrix that lead to true: section "." name.
TruePaths(prov) ==
    UNION {{<<sec, ".", n>> :
               n \in {m \in DOMAIN features(prov).props[sec].props :
                         features(prov).props[sec].props[m] = JsBoolean(TRUE)}} :
           sec \in DOMAIN features(prov).props}

C15_SupportsExactlyTruePaths ==
    api_kind = "supports" =>
        /\ api_out.status = "returned"
        /\ api_out.value \in BOOLEAN
        /\ (api_out.value <=> api_arg \in TruePaths(provider))

C15_Witness ==
    /\ api_kind = "supports"
    /\ provider = "cloudinary"
    /\ api_arg = <<"transformations", ".", "blur">>
    /\ api_out.value

\* The named false cases: declared false, unknown segments, a non-boolean end,
\* a path below a boolean, the empty string.
SupportsFalseCases ==
    /\ ~supports("mock", <<"transformations", ".", "blur">>)
    /\ ~supports("cloudinary", <<"nonexistent", ".", "blur">>)
    /\ ~supports("cloudinary", <<"transformations", ".", "nonexistent">>)
    /\ ~supports("cloudinary", <<"storage", ".", "maxFileSize">>)
    /\ ~supports("cloudinary", <<"transformations">>)
    /\ ~supports("cloudinary", <<"transformations", ".", "blur", ".", "blur">>)
    /\ ~supports("cloudinary", <<>>)
    /\ ~supports("cloudinary", <<"transformations", ".", "constructor">>)

\* ---- C16: search on an adapter without search rejects with a MediaError of kind
\* PROVIDER_ERROR naming the provider and the operation; it never resolves.
C16_SearchUnsupportedIsProviderError ==
    (api_kind = "search" /\ ~hasSearch) =>
        /\ api_out.status = "rejected"
        /\ api_out.error.type = "MediaError"
        /\ api_out.error.code = "PROVIDER_ERROR"

\* What does hold: it rejects, with a plain Error whose message names the
\* provider and the operation.
SearchUnsupportedRejectsPlainError ==
    (api_kind = "search" /\ ~hasSearch) =>
        /\ api_out.status = "rejected"
        /\ api_out.error.type = "Error"
        /\ api_out.error.message.text = SearchUnsupportedMessage(provider)

C16_Witness ==
    /\ api_kind = "search"
    /\ ~hasSearch
    /\ provider = "cloudinary"
    /\ api_out.status = "rejected"

\* ---- C17: each adapter's error mapping is first-match-wins in the order
\* authentication > quota > not-found > timeout/network > oversize/invalid-file >
\* operation default: the kind returned is that of the highest-priority class
\* the error matches, and the operation's default when it matches none.
\* The signals by which an adapter recognises a class.
Matches(prov, class, err) ==
    IF prov = "cloudinary"
    THEN CASE class = "authentication" -> err.http = 401 \/ "Invalid API key" \in err.msg
           [] class = "quota" -> err.http = 402 \/ "quota" \in err.msg
           [] class = "not-found" -> err.http = 404 \/ "not found" \in err.msg
           [] class = "network" -> err.http = 408 \/ err.msg \cap {"timeout", "ETIMEDOUT"} # {}
           [] class = "oversize" -> err.msg \cap {"Invalid image file", "File size too large"} # {}
           [] OTHER -> FALSE
    ELSE IF prov = "r2"
    THEN CASE class = "bucket" -> err.name = "NoSuchBucket"
           [] class = "authentication" ->
                \/ err.name \in {"AccessDenied", "InvalidAccessKeyId", "SignatureDoesNotMatch"}
                \/ err.http \in {401, 403}
           [] class = "not-found" -> err.name = "NoSuchKey" \/ err.http = 404
           [] class = "network" ->
                \/ err.name \in {"SlowDown", "ServiceUnavailable", "TimeoutError"}
                \/ err.http = 503
                \/ err.msg \cap {"ETIMEDOUT", "ECONNRESET"} # {}
           [] class = "oversize" -> err.name = "EntityTooLarge" \/ err.http = 413
           [] OTHER -> FALSE
    ELSE CASE class = "bucket" -> err.name = "NoSuchBucket"
           [] class = "authentication" -> err.name \in {"AccessDenied", "InvalidAccessKeyId"}
           [] class = "not-found" -> err.name = "NoSuchKey"
           [] OTHER -> FALSE

KindsOf(class) ==
    CASE class = "bucket" -> {"INVALID_CONFIG"}
      [] class = "authentication" -> {"INVALID_CREDENTIALS", "UNAUTHORIZED"}
      [] class = "quota" -> {"QUOTA_EXCEEDED"}
      [] class = "not-found" -> {"FILE_NOT_FOUND"}
      [] class = "network" -> {"NETWORK_ERROR"}
      [] class = "oversize" -> {"FILE_TOO_LARGE", "INVALID_FILE_TYPE"}

DefaultKind(operation) ==
    CASE operation = "upload" -> {"UPLOAD_FAILED"}
      [] operation = "delete" -> {"DELETE_FAILED"}
      [] operation = "get" -> {"FILE_NOT_FOUND"}

ClassPriority == <<"authentication", "quota", "not-found", "network", "oversize">>

\* The kinds a first-match-wins mapping over `order` may return.
FirstMatch(order, prov, err, operation) ==
    LET hits == {k \in 1..Len(order) : Matches(prov, order[k], err)}
    IN IF hits = {} THEN DefaultKind(operation)
       ELSE KindsOf(order[CHOOSE k \in hits : \A j \in hits : k <= j])

Mapped == map_out # NoError

C17_FirstMatchWins ==
    Mapped =>
        /\ map_out.type = "MediaError"
        /\ map_out.code \in FirstMatch(ClassPriority, provider, map_err, map_op)

\* As amended: on R2 and S3 the missing-bucket class comes first.
C17_FirstMatchWinsAfterBucket ==
    Mapped =>
        /\ map_out.type = "MediaError"
        /\ map_out.code \in FirstMatch(<<"bucket">> \o ClassPriority, provider, map_err, map_op)

\* An error of several classes: status 401 with 'quota' and 'not found' in
\* the message, on Cloudinary.
C17_Witness ==
    /\ Mapped
    /\ provider = "cloudinary"
    /\ map_err.http = 401
    /\ map_err.msg = {"quota", "not found"}
    /\ map_out.code = "INVALID_CREDENTIALS"

\* ---- C18: during one upload with onProgress supplied the values passed are
\* non-decreasing and within [0,100], the callback is invoked at least twice
\* with the first value 0, and on success the last value is 100.
NonDecreasing(q) == \A k \in 1..(Len(q) - 1) : q[k] <= q[k + 1]

ProgSettled == prog_pc \in {"resolved", "rejected"}

C18_ProgressSequence ==
    /\ NonDecreasing(progress)
    /\ \A k \in 1..Len(progress) : progress[k] \in 0..100
    /\ ProgSettled => (Len(progress) >= 2 /\ progress[1] = 0)
    /\ prog_pc = "resolved" => (Len(progress) >= 1 /\ progress[Len(progress)] = 100)

\* What does hold: the values are monotone and in range on every adapter;
\* Cloudinary starts at 0 and ends a successful upload at 100.
ProgressMonotoneCloudinaryBracketed ==
    /\ NonDecreasing(progress)
    /\ \A k \in 1..Len(progress) : progress[k] \in 0..100
    /\ (provider = "cloudinary" /\ ProgSettled) => (Len(progress) >= 3 /\ progress[1] = 0)
    /\ (provider = "cloudinary" /\ prog_pc = "resolved") => progress[Len(progress)] = 100
    /\ (provider # "cloudinary" /\ prog_pc = "resolved" /\ prog_total > 0) =>
           progress[Len(progress)] = 100

\* A one-part upload to R2 that succeeded: the callback ran once, with 100.
C18_Witness ==
    /\ provider = "r2"
    /\ prog_pc = "resolved"
    /\ prog_total = 1
    /\ progress = <<100>>

\* ---- C19: in uploadMultiple every upload call receives its own freshly created
\* options object: no two calls share one, none receives the batch-only keys
\* (concurrency, onBatchProgress), and the caller's options object is unmodified.
OwnOptions ==
    \A k \in 1..Len(uploadArgs) :
        uploadArgs[k] # -1 =>
            /\ uploadArgs[k] # callerOptions
            /\ \A j \in 1..Len(uploadArgs) : j # k => uploadArgs[j] # uploadArgs[k]

NoBatchOnlyKeys ==
    \A k \in 1..Len(uploadArgs) :
        uploadArgs[k] # -1 => KeysOf(heap, uploadArgs[k]) \cap BatchOnlyKeys = {}

CallerOptionsUnmodified == [][callerOptions # -1 => heap'[1] = heap[1]]_vars

C19_OptionsDerivedPerFile == OwnOptions /\ NoBatchOnlyKeys

\* What does hold: the objects are distinct and never the caller's, concurrency
\* is never passed on, and onBatchProgress is passed on by S3 only.
OptionsOwnAndBatchKeysStrippedExceptS3 ==
    /\ OwnOptions
    /\ \A k \in 1..Len(uploadArgs) :
           uploadArgs[k] # -1 =>
               /\ "concurrency" \notin KeysOf(heap, uploadArgs[k])
               /\ provider # "s3" => "onBatchProgress" \notin KeysOf(heap, uploadArgs[k])
    /\ callerOptions # -1 => Len(heap) >= 1

\* Two uploads of one S3 batch called with onBatchProgress among the options.
C19_Witness ==
    /\ provider = "s3"
    /\ callerOptions = 0
    /\ "onBatchProgress" \in KeysOf(heap, 0)
    /\ Len(uploadArgs) = 2
    /\ uploadArgs[1] # uploadArgs[2]

\* ---- C21: if an upload started by uploadMultiple rejects, uploadMultiple
\* rejects with a MediaError, returns no partial result list, and starts no
\* upload of a later batch window.
\* Positions past the window that was in flight when the call rejected.
PastCurrentWindow ==
    {k \in 1..Len(files) : k > SliceIndex(up_i + concurrency, Len(files))}

UploadFailed == \E k \in 1..Len(files) : up_state[k] = "fail"

C21_BatchRejectsWithMediaError ==
    UploadFailed =>
        /\ up_pc = "rejected"
        /\ up_error.type = "MediaError"
        /\ CallerBound >= 1 => \A k \in PastCurrentWindow : up_calls[k] = 0

\* What does hold: the call rejects with the error of the first upload that
\* failed and, for a positive bound, starts nothing later.
BatchRejectsWithFirstError ==
    UploadFailed =>
        /\ up_pc = "rejected"
        /\ up_error # NoError
        /\ CallerBound >= 1 => \A k \in PastCurrentWindow : up_calls[k] = 0

\* A batch whose first window hit a client that could not be loaded.
C21_Witness ==
    /\ up_pc = "rejected"
    /\ up_error.type = "Error"
    /\ Len(files) >= 3
    /\ concurrency = 2
    /\ up_calls[3] = 0

C23_CreateMediaErrorTotal ==
    cme_out # <<>> =>
        /\ cme_out[1].tag = "returned"
        /\ cme_out[1].value.name = "MediaError"
        /\ cme_out[1].value.code = cme_code
        /\ cme_out[1].value.provider = provider
        /\ cme_out[1].value.originalError = cme_error
        /\ cme_out[1].value.message =
               (IF cme_error.t \in {"Error", "TypeError", "MediaError"}
                THEN cme_error.message
                ELSE "An unknown error occurred")

\* A plain object with a message of its own (not an Error instance).
C23_Witness ==
    /\ cme_out # <<>>
    /\ cme_error = [t |-> "object", message |-> "Something went wrong"]
    /\ cme_out[1].value.message = "An unknown error occurred"

\* ---- C24: R2Provider.getUrl(id, transform) is synchronous and makes no network
\* call; with publicUrl configured it returns publicUrl/id for every transform
\* (a non-empty transform only warns), without it it throws INVALID_CONFIG.
C24_GetUrl ==
    url_out # <<>> =>
        /\ clientPromise = "none" /\ initStarts = 0 /\ clientsCreated = 0
        /\ IF url_config \in {"https://cdn.example.com", "https://cdn.example.com/"}
           THEN /\ url_out[1].tag = "returned"
                /\ url_out[1].url = <<url_config, "/", url_id>>
           ELSE /\ url_out[1].tag = "threw"
                /\ url_out[1].error.type = "MediaError"
                /\ url_out[1].error.code = "INVALID_CONFIG"
        /\ url_warnings = (IF url_transform \in {<<{"width"}>>, <<{"width", "height"}>>} THEN 1 ELSE 0)

\* A call with a transform on an instance that has a publicUrl.
C24_Witness ==
    /\ url_out # <<>>
    /\ url_config = "https://cdn.example.com"
    /\ url_transform = <<{"width"}>>
    /\ url_out[1].tag = "returned"
    /\ url_warnings = 1

\* ---- C25: the file-validation hook applies the configured checks in the order
\* max size, min size, allowed MIME types, blocked extensions, allowed
\* extensions, custom validator; at the first failing check it invokes
\* onValidationFailed exactly once and throws a MediaError (FILE_TOO_LARGE for
\* max size, INVALID_FILE_TYPE otherwise) without evaluating a later check; when
\* every check passes it never invokes onValidationFailed and returns the
\* caller's options with every existing metadata key kept.
ClaimedOrder ==
    <<"maxSize", "minSize", "allowedTypes", "blockedExtensions", "allowedExtensions",
      "customValidator">>

\* The positions, in the claimed order, of the configured checks the file fails.
FailingChecks ==
    {k \in 1..6 : Guarded(val_opts, ClaimedOrder[k]) /\ Rejects(val_opts, val_file, ClaimedOrder[k])}

FirstFailing == CHOOSE k \in FailingChecks : \A j \in FailingChecks : k <= j

ValidatorThrows == val_opts.customValidator = "throws"

C25_ValidationOrder ==
    val_out # <<>> =>
        IF FailingChecks # {}
        THEN /\ val_out[1].status = "rejected"
             /\ val_out[1].error.type = "MediaError"
             /\ val_out[1].error.code =
                    (IF ClaimedOrder[FirstFailing] = "maxSize" THEN "FILE_TOO_LARGE"
                     ELSE "INVALID_FILE_TYPE")
             /\ val_calls = (IF val_opts.onValidationFailed THEN 1 ELSE 0)
             /\ val_evaluated = SubSeq(ClaimedOrder, 1, FirstFailing)
        ELSE /\ val_calls = 0
             /\ ~ValidatorThrows =>
                    /\ val_out[1].status = "resolved"
                    /\ val_meta \subseteq val_out[1].metadata

\* A file that is both too large and of a type that is not allowed.
C25_Witness ==
    /\ val_out # <<>>
    /\ val_opts.maxSize = 2
    /\ val_file.size = 3
    /\ val_opts.allowedTypes = <<{<<"image", "*">>}>>
    /\ val_file.ext = ".exe"
    /\ val_opts.onValidationFailed
    /\ val_out[1].error.code = "FILE_TOO_LARGE"
    /\ val_calls = 1

\* ---- C26: uploadMultiple(files, {concurrency: C}) and deleteMultiple(ids)
\* terminate (resolve or reject) for every finite list and every C the caller
\* passes, C = 0 and negative C included, provided every individual upload or
\* delete settles.
BatchRunning == up_pc = "window" \/ del_pc = "window"

BatchSettled ==
    /\ up_pc \in {"idle", "resolved", "rejected"}
    /\ del_pc \in {"idle", "resolved", "rejected"}
    /\ up_pc # "idle" \/ del_pc # "idle"

C26_BatchTerminates == BatchRunning ~> BatchSettled

\* What the code guarantees: deleteMultiple always terminates, uploadMultiple
\* terminates for every C >= 1 and for the default.
TerminatesForPositiveBound ==
    (BatchRunning /\ concurrency >= 1) ~> BatchSettled

\* uploadMultiple of a non-empty list with concurrency 0: the window awaited
\* is files.slice(0, 0), nothing is in flight, and i += 0 leaves the loop
\* where it is.
C26_Witness ==
    /\ up_pc = "window"
    /\ optConcurrency = <<0>>
    /\ Len(files) >= 1
    /\ up_i = 0
    /\ \A k \in 1..Len(files) : up_state[k] = "new"

\* ---- C27: during CloudinaryProvider.uploadMultiple with onProgress supplied,
\* under every interleaving of the uploads of a window, the overall percentages
\* passed to the caller are non-decreasing, stay within [0,100], and the last
\* one is 100 when the batch succeeds.
C27_BlendedProgressMonotone ==
    /\ NonDecreasing(bl_seq)
    /\ \A j \in 1..Len(bl_seq) : bl_seq[j] \in 0..100
    /\ (bl_pc = "resolved" /\ Len(bl_seq) >= 1) => bl_seq[Len(bl_seq)] = 100

\* What the code guarantees: every value is within [0,100]; with one upload
\* at a time the values are non-decreasing and end at 100.
BlendedProgressWhenSequential ==
    /\ \A j \in 1..Len(bl_seq) : bl_seq[j] \in 0..100
    /\ (bl_conc = 1 \/ bl_n = 1) =>
          /\ NonDecreasing(bl_seq)
          /\ bl_pc = "resolved" => bl_seq[Len(bl_seq)] = 100

\* Two files in one window, the second finished first: the batch succeeded
\* and the last value the caller saw is 50.
C27_Witness ==
    /\ bl_pc = "resolved"
    /\ bl_n = 2
    /\ bl_conc = 2
    /\ bl_seq[Len(bl_seq)] = 50
    /\ \E j \in 1..Len(bl_seq) : bl_seq[j] = 100

\* ---- C28: whenever R2Provider.upload rejects, that call has left no stored
\* object in the bucket; in particular an upload on an instance without
\* publicUrl never stores the object and then reports UPLOAD_FAILED.
C28_RejectedUploadStoresNothing ==
    st_out.status = "rejected" => (~st_stored /\ st_parts = 0)

\* What the code guarantees: a settled upload leaves no parts behind, and on
\* an instance with publicUrl a rejected upload stored nothing.
RejectedUploadStoresNothingWithPublicUrl ==
    /\ st_pc = "settled" => st_parts = 0
    /\ (publicUrl /\ st_out.status = "rejected") => ~st_stored
    /\ st_out.status = "resolved" => (st_stored /\ st_key \in st_bucket)

\* Without publicUrl: the object is in the bucket and the caller was told
\* UPLOAD_FAILED.
C28_Witness ==
    /\ ~publicUrl
    /\ st_pc = "settled"
    /\ st_stored
    /\ st_key \in st_bucket
    /\ st_out.status = "rejected"
    /\ st_out.error.type = "MediaError"
    /\ st_out.error.code = "UPLOAD_FAILED"

\* ---- C29: two CloudinaryProvider instances constructed with different
\* configurations never affect each other: under every interleaving of their
\* initialisations and operations each instance's backend calls are made
\* against a client configured with that instance's own cloud name and
\* credentials.
C29_InstancesIndependent ==
    \A e \in sh_executed : e[2] = e[1]

\* What the code guarantees: every instance initialises at most once, a call
\* is made only with a configured SDK, and as long as a single instance has
\* initialised its calls use its own configuration.
InstanceAloneUsesOwnConfig ==
    /\ \A e \in sh_executed : e[2] \in Instances /\ sh_promise[e[2]] = "resolved"
    /\ \A a \in Instances :
          (\A b \in Instances \ {a} : sh_promise[b] # "resolved")
             => \A e \in sh_executed : e[1] = a => e[2] = a

\* Instance 1 initialised, then instance 2, then an operation of instance 1
\* was executed with the configuration of instance 2.
C29_Witness ==
    /\ sh_promise = [a \in Instances |-> "resolved"]
    /\ <<1, 2>> \in sh_executed

\* ---- C30: in the analytics plugin every start-time entry recorded by the
\* before-upload hook is removed once that upload has finished, whether it
\* succeeded or failed and whichever adapter produced the result, so the map
\* of pending start times is empty whenever no upload is in flight; and two
\* uploads in flight at the same time never share one entry.
C30_StartTimesCleared ==
    /\ InFlight = {} => uploadStartTimes = {}
    /\ \A u \in InFlight : \A v \in InFlight : u # v => an_id[u] # an_id[v]

\* What the code guarantees: without trackPerformance the map stays empty; an
\* entry is always one some upload recorded, never of a later time; on the R2
\* adapter, as long as no upload failed and no two uploads of one name began
\* within the same millisecond, the map holds exactly the uploads in flight.
StartTimesClearedOnEcho ==
    /\ ~trackPerformance => uploadStartTimes = {}
    /\ \A e \in uploadStartTimes : e[1] \in FileNames /\ e[2] <= an_now
    /\ (trackPerformance /\ EchoesMetadata(provider) /\ an_clean)
          => uploadStartTimes = {an_id[u] : u \in InFlight}

\* An upload through the Cloudinary adapter succeeded, nothing is in flight
\* and its entry is still in the map.
C30_Witness ==
    /\ provider = "cloudinary"
    /\ trackPerformance
    /\ an_clean
    /\ InFlight = {}
    /\ uploadStartTimes # {}

====
